---- MODULE Spec2Model ----
(***************************************************************************)
(* Model of the campaign execution engine of wa-blaster (src/app.py):      *)
(* the runner thread (_processing_runner, _execute_processing_phase,       *)
(* _run_phase), the two lane threads (browser_worker, process_contact),    *)
(* the batch update of the LIST sheet (perform_batch_update with its       *)
(* .lock marker file) and an external user of the same workbook.           *)
(*                                                                         *)
(* One run of the blaster is modelled.  A contact is a row of the LIST     *)
(* sheet; its identity is its normalized phone number, which the data      *)
(* model takes to be unique within a run.                                  *)
(***************************************************************************)
EXTENDS Integers, Sequences, FiniteSets, TLC

\* ---------------------------------------------------------------- constants
\* CONFIG["STATUS_VALUES"]
PENDING == -1
INVALID == 0
SENT == 1
RETRY == 2
Statuses == {PENDING, INVALID, SENT, RETRY}

\* perform_batch_update: max_attempts
max_attempts == 3

\* Number of rows of the LIST sheet in the engine specification.
NumContacts == 2
\* Number of rows of the LIST sheet in the assignment specification.
AssignContacts == 4
\* Number of writes the external user of the workbook makes in a run.
MaxExtWrites == 1
\* Number of times the external user takes the lock marker in a run.
MaxExtLocks == 1

Lanes == {1, 2}
Phases == {"Initial", "Retry"}

EmptyMap == [x \in {} |-> 0]

\* ------------------------------------------------------------------ state
VARIABLES
    contacts,        \* LIST sheet rows: phone and the three codes (never written)
    settings_ok,     \* SETTINGS sheet: MIN_TIMER and MAX_TIMER parse as numbers
    messages_map,    \* MSGS sheet: code -> template
    docs_map,        \* DOCS sheet: code -> list of files
    media_map,       \* MEDIA sheet: code -> list of files
    store,           \* Status column of the LIST sheet in the workbook file
    workbook,        \* condition of the workbook file: "ok", "no_sheet",
                     \* "no_columns", "invalid", or "flaky" (reading or writing
                     \* it may raise)
    marker,          \* the <file>.lock marker: "none" or [owner, age]
    excel_lock,      \* threading.Lock excel_lock: "none" or the flusher holding it
    extWrites,       \* number of writes of the external user so far
    extLocks,        \* number of times the external user took the marker so far
    rpc,             \* position of the runner thread
    phase,           \* phase_name of the current phase ("none" before the first)
    contacts_df_full,\* statuses as loaded by the runner (initial load, then reload)
    driver,          \* driver1/driver2 handed to the current phase
    batch,           \* contacts_for_phase, as row numbers in sheet order
    q,               \* q1, q2
    final_statuses,  \* the status ledger: phone -> status
    total_processed_count,
    stop_event,
    lane,            \* the two browser_worker threads and their process_contact frame
    fl,              \* the BatchUpdateThread of each phase
    ledger_op,       \* the last access to the ledger: what was done, and whether
                     \* status_update_lock was held
    hist,            \* per contact, for the current phase: the lane that dequeued
                     \* it, the results the executor returned for it and the
                     \* exception met while it was processed
    encoded_template,\* personalize_message: the URL-encoded template it is given
    format_data,     \* personalize_message: keyword -> value for the contact
    personalized,    \* personalize_message: the text after the formatting
    text,            \* parse_spintax: its text
    render_pc        \* position of a call of personalize_message

vars == <<contacts, settings_ok, messages_map, docs_map, media_map, workbook, store, marker,
          excel_lock,
          extWrites, extLocks, rpc, phase, contacts_df_full, driver, batch, q,
          final_statuses, total_processed_count, stop_event, lane, fl, hist, ledger_op,
          encoded_template, format_data, personalized, text, render_pc>>

\* The frame of a call of personalize_message
rendering == <<encoded_template, format_data, personalized, text, render_pc>>

\* What the threads of the engine never write: the sheets of the workbook
\* but the Status column, and the frame of the renderer.
static == <<contacts, settings_ok, messages_map, docs_map, media_map, workbook, rendering>>

\* An access to the ledger: a "set" of an entry, a "clear" or the "copy" for
\* a flush, by the GUI thread, the runner or a lane, inside a
\* "with status_update_lock" block or not.
Access(op, by, locked) == [op |-> op, by |-> by, locked |-> locked]
NoAccess == Access("none", "none", TRUE)

Rows == 1..Len(contacts)

\* A cell of the Phone column as the workbook holds it: a number with an
\* integral value that is read as an int ("int") or as a float ("float"),
\* a text ("text"), a text with blanks around it ("padded"), or nothing
\* ("blank").  n stands for the digits; 0 - n for a text that differs from
\* the digits (with ".0" or blanks), 0 for the empty text.
Cell(kind, n) == [kind |-> kind, n |-> n]

\* normalize_value that has no rule for a float with an integral value
normalize_value_no_float(v) ==
    CASE v.kind = "blank" -> 0
      [] v.kind = "float" -> 0 - v.n
      [] OTHER -> v.n

\* normalize_value: "" for NaN, str(int(value)) for a float with an integral
\* value, else str(value).strip()
normalize_value(v) ==
    CASE v.kind = "blank" -> 0
      [] v.kind = "float" -> v.n
      [] OTHER -> v.n

\* What the str converter of the loader's read_excel is given and returns:
\* a number with an integral value is read as an int, so its text is its
\* digits; a text stays as it is.
pandas_str(v) ==
    CASE v.kind \in {"int", "float"} -> Cell("text", v.n)
      [] OTHER -> v

\* The Phone of a contact as the loader gives it (the key of the ledger)
phone(c) == normalize_value(pandas_str(contacts[c].phone))

\* The phone number perform_batch_update computes for a row of the sheet
RowKey(r) == normalize_value(contacts[r].phone)

\* ------------------------------------------------------- pure operators
\* The rows of `rows` (ascending) whose value satisfies Keep, as a sequence in
\* sheet order: the boolean-mask selections of _processing_runner.
RECURSIVE SelectRows(_, _, _)
SelectRows(statuses, keep, n) ==
    IF n = 0 THEN <<>>
    ELSE LET rest == SelectRows(statuses, keep, n - 1)
         IN IF statuses[n] \in keep THEN Append(rest, n) ELSE rest

\* InitialBatch selecting every contact that is not SENT
InitialBatchNotSent(statuses) == SelectRows(statuses, {PENDING, RETRY, INVALID}, Len(statuses))

\* contacts_df_full[status_col].isin([status_pending, status_retry])
InitialBatch(statuses) == SelectRows(statuses, {PENDING, RETRY}, Len(statuses))

\* ComputeRetrySet selecting with the mask of the Initial phase
ComputeRetrySetAsInitial(statuses) == SelectRows(statuses, {PENDING, RETRY}, Len(statuses))

\* contacts_df_for_retry_full[status_col] == status_retry
ComputeRetrySet(statuses) == SelectRows(statuses, {RETRY}, Len(statuses))

Range(s) == {s[i] : i \in DOMAIN s}

\* AssignLane that puts every contact in the queue of the first live lane
AssignLaneFirstLive(i, d) ==
    IF d[1] THEN 1
    ELSE IF d[2] THEN 2
    ELSE 0

\* Queue a contact of the batch is put in by the loop of _run_phase: index i
\* (0-based) goes to q1 if i is even and driver1 is live, else to q2 if driver2
\* is live, else to q1 if driver1 is live; 0 when it is put in no queue.
AssignLane(i, d) ==
    IF i % 2 = 0 /\ d[1] THEN 1
    ELSE IF d[2] THEN 2
    ELSE IF d[1] THEN 1
    ELSE 0

\* QueueOf that puts the whole batch in the queue of every live lane
QueueOfWholeBatch(l, b, d) == IF d[l] THEN b ELSE <<>>

\* The queue of a lane after the loop of _run_phase
QueueOf(l, b, d) ==
    LET idx == {i \in 1..Len(b) : AssignLane(i - 1, d) = l}
        RECURSIVE build(_)
        build(n) == IF n = 0 THEN <<>>
                    ELSE IF n \in idx THEN Append(build(n - 1), b[n])
                    ELSE build(n - 1)
    IN build(Len(b))

\* PreRegister with the registration left to the lanes: only the contact at
\* the head of the list is registered.
PreRegisterHeadOnly(ledger, b) ==
    [p \in (DOMAIN ledger) \cup {phone(b[i]) : i \in 1..1} |->
        IF phone(b[1]) = p THEN RETRY ELSE ledger[p]]

\* self.final_statuses[phone] = RETRY for every contact of the list
PreRegister(ledger, b) ==
    [p \in (DOMAIN ledger) \cup {phone(b[i]) : i \in 1..Len(b)} |->
        IF \E i \in 1..Len(b) : phone(b[i]) = p THEN RETRY ELSE ledger[p]]

\* SetStatus that records a contact to retry as PENDING
SetStatusRetryAsPending(ledger, p, s) == (p :> IF s = RETRY THEN PENDING ELSE s) @@ ledger

\* final_statuses[phone] = status
SetStatus(ledger, p, s) == (p :> s) @@ ledger

\* ----------------------------------------------------- process_contact
has_message(c) ==
    /\ contacts[c].msg_code # "0"
    /\ contacts[c].msg_code \in DOMAIN messages_map
    /\ messages_map[contacts[c].msg_code] # <<>>

\* has_docs taking every entry of the catalog for documents to send
has_docs_any_entry(c) ==
    /\ contacts[c].doc_code # "0"
    /\ contacts[c].doc_code \in DOMAIN docs_map

has_docs(c) ==
    /\ contacts[c].doc_code # "0"
    /\ contacts[c].doc_code \in DOMAIN docs_map
    /\ docs_map[contacts[c].doc_code] # <<>>

has_media(c) ==
    /\ contacts[c].media_code # "0"
    /\ contacts[c].media_code \in DOMAIN media_map
    /\ media_map[contacts[c].media_code] # <<>>

\* Validation looking up the message code without the test for "0"
ValidationNoSentinel(c) ==
    IF contacts[c].msg_code \notin DOMAIN messages_map
        THEN INVALID
    ELSE IF contacts[c].doc_code # "0" /\ contacts[c].doc_code \notin DOMAIN docs_map
        THEN INVALID
    ELSE IF contacts[c].media_code # "0" /\ contacts[c].media_code \notin DOMAIN media_map
        THEN INVALID
    ELSE IF ~(has_message(c) \/ has_docs(c) \/ has_media(c))
        THEN SENT
    ELSE RETRY

\* The validation chain of process_contact: the status the contact has after
\* it (RETRY when actions are to be performed).
Validation(c) ==
    IF contacts[c].msg_code # "0" /\ contacts[c].msg_code \notin DOMAIN messages_map
        THEN INVALID
    ELSE IF contacts[c].doc_code # "0" /\ contacts[c].doc_code \notin DOMAIN docs_map
        THEN INVALID
    ELSE IF contacts[c].media_code # "0" /\ contacts[c].media_code \notin DOMAIN media_map
        THEN INVALID
    ELSE IF ~(has_message(c) \/ has_docs(c) \/ has_media(c))
        THEN SENT
    ELSE RETRY

\* The courses send_text_message can take: the personalized message is
\* empty, or the chat URL is opened and the page shows the popup for an
\* invalid number, times out, shows no send button, or the button is
\* clicked (directly or by script), or the click fails, or the driver
\* raises a WebDriverException (one that reports "disconnected" or another).
SendEvents == {"clicked", "js_clicked", "empty_message", "invalid_popup", "timeout",
               "no_send_button", "click_failed", "wd_exception", "disconnected"}

\* send_text_message: its return value for each course.
send_text_message(ev) ==
    CASE ev \in {"clicked", "js_clicked"} -> "SENT"
      [] ev \in {"empty_message", "invalid_popup"} -> "INVALID"
      [] OTHER -> "FAILED"

\* The courses attach_and_send_files can take with files to send: they are
\* sent, none of them exists any more, or the chat, the attach button or the
\* file input is not found, or an exception is raised (by a driver that
\* reports a disconnect, or another).
AttachEvents == {"sent", "files_gone", "no_chat", "no_button", "no_input", "error",
                 "disconnected"}

\* The exception the executor met (and caught) in a course: a driver that
\* reports a disconnect, another exception, or none.
ExcOf(ev) ==
    CASE ev = "disconnected" -> "disconnected"
      [] ev \in {"wd_exception", "error"} -> "caught"
      [] OTHER -> "none"

\* attach_and_send_files: True with nothing to send or after the send button
\* of the attachment was clicked, False on every failure.
attach_and_send_files(files, ev) ==
    IF files = <<>> THEN TRUE ELSE ev \in {"sent", "files_gone"}

\* AfterSend with a failed text send that leaves the attachments to be sent
AfterSendKeepAttachments(f) ==
    CASE f.message_sent_status = "INVALID" ->
            [f EXCEPT !.current_status = INVALID, !.docs_sent = FALSE, !.media_sent = FALSE]
      [] f.message_sent_status = "FAILED" ->
            [f EXCEPT !.current_status = RETRY]
      [] OTHER -> f

\* Classification of the text send result (after the stop check).
AfterSend(f) ==
    CASE f.message_sent_status = "INVALID" ->
            [f EXCEPT !.current_status = INVALID, !.docs_sent = FALSE, !.media_sent = FALSE]
      [] f.message_sent_status = "FAILED" ->
            [f EXCEPT !.current_status = RETRY, !.docs_sent = FALSE, !.media_sent = FALSE]
      [] OTHER -> f

\* AfterDocs that does not skip the media after failed documents
AfterDocsKeepMedia(f) ==
    IF ~f.docs_sent THEN [f EXCEPT !.current_status = RETRY] ELSE f

\* if not docs_sent: current_status = RETRY; media_sent = False
AfterDocs(f) ==
    IF ~f.docs_sent THEN [f EXCEPT !.current_status = RETRY, !.media_sent = FALSE] ELSE f

\* if not media_sent: current_status = RETRY
AfterMedia(f) ==
    IF ~f.media_sent THEN [f EXCEPT !.current_status = RETRY] ELSE f

\* FinalStatus that does not look at the result of the media
FinalStatusIgnoreMedia(f) ==
    IF /\ f.message_sent_status # "FAILED"
       /\ f.docs_sent
       /\ f.current_status = RETRY
    THEN SENT
    ELSE f.current_status

\* 5) Final status decision
FinalStatus(f) ==
    IF /\ f.message_sent_status # "FAILED"
       /\ f.docs_sent
       /\ f.media_sent
       /\ f.current_status = RETRY
    THEN SENT
    ELSE f.current_status

\* The next step of process_contact from the documents step on.
DocsOrLater(c, f) ==
    IF has_docs(c) /\ f.docs_sent THEN "docs"
    ELSE IF has_media(c) /\ f.media_sent THEN "media"
    ELSE "final"

MediaOrLater(c, f) ==
    IF has_media(c) /\ f.media_sent THEN "media" ELSE "final"

IdleLane == [pc |-> "off", cur |-> 0, current_status |-> RETRY,
             message_sent_status |-> "SKIPPED", docs_sent |-> TRUE, media_sent |-> TRUE]

NoCalls == [lane |-> 0, text |-> "NONE", docs |-> "NONE", media |-> "NONE", exc |-> "none"]

\* The record of a contact after a course of an executor operation
Met(h, ev) == IF ExcOf(ev) = "none" THEN h ELSE [h EXCEPT !.exc = ExcOf(ev)]

\* process_contact returns: its frame is dropped, and browser_worker marks
\* the task done, adds one to the counter of the phase and goes back to the
\* head of its loop.
Return(l) ==
    /\ lane' = [lane EXCEPT ![l] = [IdleLane EXCEPT !.pc = "loop"]]
    /\ total_processed_count' = total_processed_count + 1

\* LaneLoop that waits on an empty queue (a blocking get) until the stop
LaneLoopBlocking(l) ==
    /\ lane[l].pc = "loop"
    /\ q[l] # <<>> \/ stop_event
    /\ IF stop_event
       THEN /\ lane' = [lane EXCEPT ![l] = [IdleLane EXCEPT !.pc = "exit"]]
            /\ UNCHANGED <<q, hist>>
       ELSE /\ lane' = [lane EXCEPT ![l] = [IdleLane EXCEPT !.pc = "begin", !.cur = Head(q[l])]]
            /\ q' = [q EXCEPT ![l] = Tail(q[l])]
            /\ hist' = [hist EXCEPT ![Head(q[l])].lane = l]
    /\ UNCHANGED <<static, ledger_op, store, marker, excel_lock, extWrites, extLocks, rpc, phase,
                   contacts_df_full, driver, batch, final_statuses,
                   total_processed_count, stop_event, fl>>

\* LaneLoop that leaves the loop once a contact of the lane met an exception
LaneLoopExitOnException(l) ==
    /\ lane[l].pc = "loop"
    /\ IF q[l] = <<>> \/ stop_event
          \/ \E c \in DOMAIN hist : hist[c].lane = l /\ hist[c].exc # "none"
       THEN /\ lane' = [lane EXCEPT ![l] = [IdleLane EXCEPT !.pc = "exit"]]
            /\ UNCHANGED <<q, hist>>
       ELSE /\ lane' = [lane EXCEPT ![l] = [IdleLane EXCEPT !.pc = "begin", !.cur = Head(q[l])]]
            /\ q' = [q EXCEPT ![l] = Tail(q[l])]
            /\ hist' = [hist EXCEPT ![Head(q[l])].lane = l]
    /\ UNCHANGED <<static, ledger_op, store, marker, excel_lock, extWrites, extLocks, rpc, phase,
                   contacts_df_full, driver, batch, final_statuses,
                   total_processed_count, stop_event, fl>>

\* LaneLoop that takes the contact put in the queue last
LaneLoopLifo(l) ==
    /\ lane[l].pc = "loop"
    /\ IF q[l] = <<>> \/ stop_event
       THEN /\ lane' = [lane EXCEPT ![l] = [IdleLane EXCEPT !.pc = "exit"]]
            /\ UNCHANGED <<q, hist>>
       ELSE /\ lane' = [lane EXCEPT ![l] = [IdleLane EXCEPT !.pc = "begin",
                                                            !.cur = q[l][Len(q[l])]]]
            /\ q' = [q EXCEPT ![l] = SubSeq(q[l], 1, Len(q[l]) - 1)]
            /\ hist' = [hist EXCEPT ![q[l][Len(q[l])]].lane = l]
    /\ UNCHANGED <<static, ledger_op, store, marker, excel_lock, extWrites, extLocks, rpc, phase,
                   contacts_df_full, driver, batch, final_statuses,
                   total_processed_count, stop_event, fl>>

\* while not contact_q.empty() and not self.stop_event.is_set(): get_nowait()
LaneLoop(l) ==
    /\ lane[l].pc = "loop"
    /\ IF q[l] = <<>> \/ stop_event
       THEN /\ lane' = [lane EXCEPT ![l] = [IdleLane EXCEPT !.pc = "exit"]]
            /\ UNCHANGED <<q, hist>>
       ELSE /\ lane' = [lane EXCEPT ![l] = [IdleLane EXCEPT !.pc = "begin", !.cur = Head(q[l])]]
            /\ q' = [q EXCEPT ![l] = Tail(q[l])]
            /\ hist' = [hist EXCEPT ![Head(q[l])].lane = l]
    /\ UNCHANGED <<static, ledger_op, store, marker, excel_lock, extWrites, extLocks, rpc, phase,
                   contacts_df_full, driver, batch, final_statuses,
                   total_processed_count, stop_event, fl>>

\* PcBegin without the check of the stop event
PcBeginNoStopCheck(l) ==
    LET c == lane[l].cur
        v == Validation(c)
    IN /\ lane[l].pc = "begin"
       /\ IF phone(c) = 0
          THEN /\ Return(l)
               /\ UNCHANGED <<final_statuses, ledger_op>>
          ELSE IF v # RETRY
          THEN /\ final_statuses' = SetStatus(final_statuses, phone(c), v)
               /\ ledger_op' = Access("set", "lane", TRUE)
               /\ Return(l)
          ELSE /\ lane' = [lane EXCEPT ![l].pc =
                              IF has_message(c) THEN "send" ELSE DocsOrLater(c, lane[l])]
               /\ UNCHANGED <<final_statuses, total_processed_count, ledger_op>>
       /\ UNCHANGED <<static, store, marker, excel_lock, extWrites, extLocks, rpc, phase,
                      contacts_df_full, driver, batch, q, stop_event, fl, hist>>

\* process_contact up to the actions: the stop check, the missing-phone
\* check and the validation; INVALID and the no-action SENT are recorded at
\* once.
PcBegin(l) ==
    LET c == lane[l].cur
        v == Validation(c)
    IN /\ lane[l].pc = "begin"
       /\ IF stop_event \/ phone(c) = 0
          THEN /\ Return(l)
               /\ UNCHANGED <<final_statuses, ledger_op>>
          ELSE IF v # RETRY
          THEN /\ final_statuses' = SetStatus(final_statuses, phone(c), v)
               /\ ledger_op' = Access("set", "lane", TRUE)
               /\ Return(l)
          ELSE /\ lane' = [lane EXCEPT ![l].pc =
                              IF has_message(c) THEN "send" ELSE DocsOrLater(c, lane[l])]
               /\ UNCHANGED <<final_statuses, total_processed_count, ledger_op>>
       /\ UNCHANGED <<static, store, marker, excel_lock, extWrites, extLocks, rpc, phase,
                      contacts_df_full, driver, batch, q, stop_event, fl, hist>>

LaneFrame == <<static, store, marker, excel_lock, extWrites, extLocks, rpc, phase,
               contacts_df_full, driver, batch, q, stop_event, fl>>

\* process_contact, 1) send text.  The timers are parsed first: a value that
\* is no number raises, and the handler records RETRY.
PcSend(l) ==
    LET c == lane[l].cur
    IN /\ lane[l].pc = "send"
       /\ IF ~settings_ok
          THEN /\ final_statuses' = SetStatus(final_statuses, phone(c), RETRY)
               /\ ledger_op' = Access("set", "lane", TRUE)
               /\ Return(l)
               /\ hist' = [hist EXCEPT ![c].exc = "handler"]
          ELSE \E ev \in SendEvents :
               /\ lane' = [lane EXCEPT ![l].pc = "sendchk",
                                       ![l].message_sent_status = send_text_message(ev)]
               /\ hist' = [hist EXCEPT ![c] = Met([@ EXCEPT !.text = send_text_message(ev)], ev)]
               /\ UNCHANGED <<final_statuses, total_processed_count, ledger_op>>
       /\ UNCHANGED LaneFrame

\* PcSendCheck that, on a stop, records the status reached so far
PcSendCheckRecordOnStop(l) ==
    LET c == lane[l].cur
        f == AfterSend(lane[l])
    IN /\ lane[l].pc = "sendchk"
       /\ IF stop_event
          THEN /\ final_statuses' = SetStatus(final_statuses, phone(c), FinalStatus(f))
               /\ Return(l)
          ELSE /\ lane' = [lane EXCEPT ![l] = [f EXCEPT !.pc = DocsOrLater(c, f)]]
               /\ UNCHANGED <<total_processed_count, final_statuses>>
       /\ UNCHANGED <<LaneFrame, hist, ledger_op>>

\* the stop check after the text send, then the classification of its result
PcSendCheck(l) ==
    LET c == lane[l].cur
        f == AfterSend(lane[l])
    IN /\ lane[l].pc = "sendchk"
       /\ IF stop_event
          THEN Return(l)
          ELSE /\ lane' = [lane EXCEPT ![l] = [f EXCEPT !.pc = DocsOrLater(c, f)]]
               /\ UNCHANGED total_processed_count
       /\ UNCHANGED <<LaneFrame, ledger_op, final_statuses, hist>>

\* process_contact, 3) attach documents
PcDocs(l) ==
    LET c == lane[l].cur
    IN /\ lane[l].pc = "docs"
       /\ \E ev \in AttachEvents :
            LET r == attach_and_send_files(docs_map[contacts[c].doc_code], ev)
            IN /\ lane' = [lane EXCEPT ![l].pc = "docschk", ![l].docs_sent = r]
               /\ hist' = [hist EXCEPT ![c] = Met([@ EXCEPT !.docs = IF r THEN "OK" ELSE "FAIL"], ev)]
       /\ UNCHANGED <<LaneFrame, ledger_op, final_statuses, total_processed_count>>

PcDocsCheck(l) ==
    LET c == lane[l].cur
        f == AfterDocs(lane[l])
    IN /\ lane[l].pc = "docschk"
       /\ IF stop_event
          THEN Return(l)
          ELSE /\ lane' = [lane EXCEPT ![l] = [f EXCEPT !.pc = MediaOrLater(c, f)]]
               /\ UNCHANGED total_processed_count
       /\ UNCHANGED <<LaneFrame, ledger_op, final_statuses, hist>>

\* process_contact, 4) attach media
PcMedia(l) ==
    LET c == lane[l].cur
    IN /\ lane[l].pc = "media"
       /\ \E ev \in AttachEvents :
            LET r == attach_and_send_files(media_map[contacts[c].media_code], ev)
            IN /\ lane' = [lane EXCEPT ![l].pc = "mediachk", ![l].media_sent = r]
               /\ hist' = [hist EXCEPT ![c] = Met([@ EXCEPT !.media = IF r THEN "OK" ELSE "FAIL"], ev)]
       /\ UNCHANGED <<LaneFrame, ledger_op, final_statuses, total_processed_count>>

PcMediaCheck(l) ==
    LET f == AfterMedia(lane[l])
    IN /\ lane[l].pc = "mediachk"
       /\ IF stop_event
          THEN Return(l)
          ELSE /\ lane' = [lane EXCEPT ![l] = [f EXCEPT !.pc = "final"]]
               /\ UNCHANGED total_processed_count
       /\ UNCHANGED <<LaneFrame, ledger_op, final_statuses, hist>>

\* process_contact, 5) final status decision and its record in the ledger
PcFinal(l) ==
    /\ lane[l].pc = "final"
    /\ final_statuses' = SetStatus(final_statuses, phone(lane[l].cur), FinalStatus(lane[l]))
    /\ ledger_op' = Access("set", "lane", TRUE)
    /\ Return(l)
    /\ UNCHANGED <<LaneFrame, hist>>

\* ------------------------------------------------ lock marker and flush
NoMarker == [owner |-> "none", age |-> "fresh"]

\* The frame of perform_batch_update (its map, attempt counter and loaded
\* workbook) is dropped when the thread ends; pc keeps its result.
IdleFlush == [pc |-> "off", map |-> EmptyMap, attempt |-> 0, wb |-> <<>>]

\* UpdateRows writing PENDING to the rows the map has no status for
UpdateRowsDefaultPending(wb, map) ==
    [r \in DOMAIN wb |-> IF RowKey(r) \in DOMAIN map THEN map[RowKey(r)] ELSE PENDING]

\* The rows loop of perform_batch_update: the status cell of every row whose
\* normalized phone is a key of the map is set to the mapped status.
UpdateRows(wb, map) ==
    [r \in DOMAIN wb |-> IF RowKey(r) \in DOMAIN map THEN map[RowKey(r)] ELSE wb[r]]

FlushFrame == <<static, ledger_op, extWrites, extLocks, rpc, phase, contacts_df_full, driver, batch, q,
                final_statuses, total_processed_count, stop_event, lane, hist>>

\* A flush thread touches the workbook, its marker and excel_lock only, and
\* these are read by nothing else but LoadBatch, Reload and the external
\* user: a flush step commutes with every step of the runner but Reload and
\* with every step of the lanes.  The flush threads are therefore scheduled
\* while the runner waits for a flush or has ended; a thread the runner
\* stopped waiting for goes on after the reload (had it ended before the
\* reload, the run would be the one in which the runner's wait did not time
\* out).
FlushWindow == rpc \in {"savejoin", "done"}

\* FlushCall without the check for an empty map
FlushCallNoEmptyCheck(f) ==
    /\ FlushWindow
    /\ fl[f].pc = "call"
    /\ fl' = [fl EXCEPT ![f].pc = "check"]
    /\ UNCHANGED <<FlushFrame, store, marker, excel_lock>>

\* perform_batch_update is entered: with an empty map it returns True at
\* once.
FlushCall(f) ==
    /\ FlushWindow
    /\ fl[f].pc = "call"
    /\ fl' = [fl EXCEPT ![f] = IF fl[f].map = EmptyMap
                               THEN [IdleFlush EXCEPT !.pc = "ok"]
                               ELSE [fl[f] EXCEPT !.pc = "check"]]
    /\ UNCHANGED <<FlushFrame, store, marker, excel_lock>>

\* is_file_locked that takes a marker of any age for a lock
is_file_locked_any_age(m, f) ==
    IF m.owner # "none"
    THEN [locked |-> TRUE, marker |-> m]
    ELSE [locked |-> FALSE, marker |-> [owner |-> f, age |-> "fresh"]]

\* is_file_locked, called by flush thread f: its result and the marker it
\* leaves.  A marker older than 60 s is removed and the file reported free
\* (no marker is created); a younger one reports the file locked; with no
\* marker the marker is created and the file reported free.
is_file_locked(m, f) ==
    IF m.owner # "none" /\ m.age = "stale"
    THEN [locked |-> FALSE, marker |-> NoMarker]
    ELSE IF m.owner # "none"
    THEN [locked |-> TRUE, marker |-> m]
    ELSE [locked |-> FALSE, marker |-> [owner |-> f, age |-> "fresh"]]

\* The frame of the flush thread when an attempt is spent without a return:
\* the loop goes to its next turn, or ends after max_attempts turns
\* ("Batch update failed after 3 attempts", return False).
NextAttempt(frame) ==
    IF frame.attempt + 1 = max_attempts
    THEN [IdleFlush EXCEPT !.pc = "failed"]
    ELSE [frame EXCEPT !.pc = "check", !.attempt = @ + 1, !.wb = <<>>]

\* One turn of the attempt loop: is_file_locked; a locked file spends the
\* attempt.
FlushCheck(f) ==
    LET r == is_file_locked(marker, f)
    IN /\ FlushWindow
       /\ fl[f].pc = "check"
       /\ marker' = r.marker
       /\ fl' = [fl EXCEPT ![f] = IF r.locked THEN NextAttempt(fl[f])
                                  ELSE [fl[f] EXCEPT !.pc = "load"]]
       /\ UNCHANGED <<FlushFrame, store, excel_lock>>

\* What load_workbook and the look-up of the sheet and its columns can give
\* for a workbook: the loaded sheet, a missing LIST sheet, a missing Phone or
\* Status column, InvalidFileException, or another exception.
LoadEvents(w) ==
    CASE w = "ok" -> {"loaded"}
      [] w = "flaky" -> {"loaded", "exception"}
      [] OTHER -> {w}

\* What wb.save can give: the file written, or an exception.
SaveEvents(w) == IF w = "flaky" THEN {"saved", "exception"} ELSE {"saved"}

\* HandleException that gives up at once, as for a corrupt file
HandleExceptionTerminal(frame, m) ==
    [frame |-> [IdleFlush EXCEPT !.pc = "failed"], marker |-> NoMarker]

\* except Exception: before the last attempt the thread sleeps and the loop
\* goes on (the marker is left in place); at the last attempt release_lock is
\* called and the loop ends.
HandleException(frame, m) ==
    [frame |-> NextAttempt(frame),
     marker |-> IF frame.attempt < max_attempts - 1 THEN m ELSE NoMarker]

\* with excel_lock: wb = load_workbook(excel_file), the sheet and the
\* columns.  A missing sheet, missing columns and InvalidFileException call
\* release_lock and return False; excel_lock is left with the "with" block.
FlushLoad(f) ==
    /\ FlushWindow
    /\ fl[f].pc = "load"
    /\ excel_lock = "none"
    /\ \E ev \in LoadEvents(workbook) :
         CASE ev = "loaded" ->
                /\ excel_lock' = f
                /\ fl' = [fl EXCEPT ![f].pc = "save", ![f].wb = store]
                /\ UNCHANGED marker
           [] ev = "exception" ->
                /\ fl' = [fl EXCEPT ![f] = HandleException(fl[f], marker).frame]
                /\ marker' = HandleException(fl[f], marker).marker
                /\ UNCHANGED excel_lock
           [] OTHER ->
                /\ fl' = [fl EXCEPT ![f] = [IdleFlush EXCEPT !.pc = "failed"]]
                /\ marker' = NoMarker
                /\ UNCHANGED excel_lock
    /\ UNCHANGED <<FlushFrame, store>>

\* the rows loop and wb.save(excel_file)
FlushSave(f) ==
    /\ FlushWindow
    /\ fl[f].pc = "save"
    /\ \E ev \in SaveEvents(workbook) :
         IF ev = "saved"
         THEN /\ store' = UpdateRows(fl[f].wb, fl[f].map)
              /\ fl' = [fl EXCEPT ![f].pc = "release", ![f].wb = <<>>]
              /\ UNCHANGED <<marker, excel_lock>>
         ELSE /\ fl' = [fl EXCEPT ![f] = HandleException(fl[f], marker).frame]
              /\ marker' = HandleException(fl[f], marker).marker
              /\ excel_lock' = "none"
              /\ UNCHANGED store
    /\ UNCHANGED FlushFrame

\* release_lock(excel_file); return True (leaving the with block)
FlushRelease(f) ==
    /\ FlushWindow
    /\ fl[f].pc = "release"
    /\ marker' = NoMarker
    /\ excel_lock' = "none"
    /\ fl' = [fl EXCEPT ![f] = [IdleFlush EXCEPT !.pc = "ok"]]
    /\ UNCHANGED <<FlushFrame, store>>

\* ------------------------------------------- external user of the workbook
\* The external user and the clock act on the workbook and the marker only:
\* their steps commute with the runner's (but LoadBatch and Reload) and with
\* the lanes', so they are scheduled while the runner waits for a flush or
\* stands before the reload (a write before LoadBatch is a different initial
\* workbook).  The external user holds the marker while it writes.
StoreWindow == rpc \in {"savejoin", "after"}

ExtFrame == <<static, ledger_op, excel_lock, rpc, phase, contacts_df_full, driver, batch, q,
              final_statuses, total_processed_count, stop_event, lane, fl, hist>>

\* Another process takes the advisory lock of the workbook.
ExtLock ==
    /\ StoreWindow
    /\ marker.owner = "none"
    /\ extLocks < MaxExtLocks
    /\ marker' = [owner |-> "ext", age |-> "fresh"]
    /\ extLocks' = extLocks + 1
    /\ UNCHANGED <<ExtFrame, store, extWrites>>

\* While it holds the lock it sets the status of a row.
ExtWrite ==
    /\ StoreWindow
    /\ marker.owner = "ext"
    /\ extWrites < MaxExtWrites
    /\ \E r \in Rows, s \in Statuses :
         /\ store[r] # s
         /\ store' = [store EXCEPT ![r] = s]
    /\ extWrites' = extWrites + 1
    /\ UNCHANGED <<ExtFrame, marker, extLocks>>

ExtUnlock ==
    /\ StoreWindow
    /\ marker.owner = "ext"
    /\ marker' = NoMarker
    /\ UNCHANGED <<ExtFrame, store, extWrites, extLocks>>

\* Sixty seconds have passed since the marker was written.  The age of the
\* marker is read by is_file_locked only: the step is taken when a flush
\* thread (not the marker's own) is about to call it.
Tick ==
    /\ \E f \in Phases : fl[f].pc = "check" /\ f # marker.owner
    /\ marker.owner # "none"
    /\ marker.age = "fresh"
    /\ marker' = [marker EXCEPT !.age = "stale"]
    /\ UNCHANGED <<ExtFrame, store, extWrites, extLocks>>

\* ----------------------------------------------------- the runner thread
\* run_blaster: the run starts with a cleared stop event, ledger and counter.
run_blaster ==
    /\ rpc = "idle"
    /\ stop_event' = FALSE
    /\ final_statuses' = EmptyMap
    /\ ledger_op' = Access("clear", "gui", FALSE)
    /\ total_processed_count' = 0
    /\ rpc' = "load"
    /\ UNCHANGED <<static, store, marker, excel_lock, extWrites, extLocks, phase,
                   contacts_df_full, driver, batch, q, lane, fl, hist>>

\* stop_blaster (GUI thread), while the processing thread is alive.  Nothing
\* reads the stop event while the runner waits for a flush: a stop at that
\* time is the stop taken right after the wait.  After the lanes of the Retry
\* phase have ended the stop event is not read any more.
stop_blaster ==
    /\ rpc \notin {"idle", "done", "savejoin"}
    /\ phase = "Retry" => rpc \in {"exec", "assign", "start", "join"}
    /\ ~stop_event
    /\ stop_event' = TRUE
    /\ UNCHANGED <<static, ledger_op, store, marker, excel_lock, extWrites, extLocks, rpc, phase,
                   contacts_df_full, driver, batch, q, final_statuses,
                   total_processed_count, lane, fl, hist>>

\* loader.get_contacts(): the statuses of the run are read from the workbook
LoadBatch ==
    /\ rpc = "load"
    /\ contacts_df_full' = store
    /\ rpc' = "setup"
    /\ UNCHANGED <<static, ledger_op, store, marker, excel_lock, extWrites, extLocks, phase,
                   driver, batch, q, final_statuses, total_processed_count,
                   stop_event, lane, fl, hist>>

\* setup_browser twice; with no driver the run is aborted, else the Initial
\* batch is selected and _execute_processing_phase("Initial") is entered.
SetupBrowsers ==
    /\ rpc = "setup"
    /\ \E d \in [Lanes -> BOOLEAN] :
         /\ driver' = d
         /\ IF ~d[1] /\ ~d[2]
            THEN /\ rpc' = "done"
                 /\ UNCHANGED <<phase, batch>>
            ELSE /\ rpc' = "exec"
                 /\ phase' = "Initial"
                 /\ batch' = InitialBatch(contacts_df_full)
    /\ UNCHANGED <<static, ledger_op, store, marker, excel_lock, extWrites, extLocks,
                   contacts_df_full, q, final_statuses, total_processed_count,
                   stop_event, lane, fl, hist>>

\* The runner after _save_pending_updates of a phase: after Initial it goes
\* to the stop check, after Retry the run is finished.
AfterSave == IF phase = "Initial" THEN "after" ELSE "done"

\* MarkAllRetry that marks nothing
MarkNone(ledger, b) == ledger

\* With no driver: final_statuses[phone] = RETRY for every contact of the
\* phase that has a phone (the ledger is not cleared before).
MarkAllRetry(ledger, b) ==
    [p \in (DOMAIN ledger) \cup {phone(c) : c \in {x \in Range(b) : phone(x) # 0}} |->
        IF \E c \in Range(b) : phone(c) = p /\ p # 0 THEN RETRY ELSE ledger[p]]

\* _execute_processing_phase up to the call of _run_phase
ExecPhase ==
    /\ rpc = "exec"
    /\ IF batch = <<>>
       THEN /\ rpc' = AfterSave
            /\ UNCHANGED <<final_statuses, total_processed_count, ledger_op>>
       ELSE IF ~driver[1] /\ ~driver[2]
       THEN /\ final_statuses' = MarkAllRetry(final_statuses, batch)
            /\ ledger_op' = Access("set", "runner", TRUE)
            /\ rpc' = "save"
            /\ UNCHANGED total_processed_count
       ELSE /\ final_statuses' = EmptyMap
            /\ ledger_op' = Access("clear", "runner", FALSE)
            /\ total_processed_count' = 0
            /\ rpc' = "assign"
    /\ UNCHANGED <<static, store, marker, excel_lock, extWrites, extLocks, phase,
                   contacts_df_full, driver, batch, q, stop_event, lane, fl, hist>>

\* _run_phase: the queues are filled and every contact is registered RETRY
RunPhaseAssign ==
    /\ rpc = "assign"
    /\ q' = [l \in Lanes |-> QueueOf(l, batch, driver)]
    /\ final_statuses' = PreRegister(final_statuses, batch)
    /\ ledger_op' = Access("set", "runner", TRUE)
    /\ rpc' = "start"
    /\ UNCHANGED <<static, store, marker, excel_lock, extWrites, extLocks, phase,
                   contacts_df_full, driver, batch, total_processed_count,
                   stop_event, lane, fl, hist>>

\* thread1.start(); thread2.start() for the lanes that have a driver
StartThreads ==
    /\ rpc = "start"
    /\ lane' = [l \in Lanes |-> IF driver[l] THEN [IdleLane EXCEPT !.pc = "loop"]
                                ELSE IdleLane]
    /\ rpc' = "join"
    /\ UNCHANGED <<static, ledger_op, store, marker, excel_lock, extWrites, extLocks, phase,
                   contacts_df_full, driver, batch, q, final_statuses,
                   total_processed_count, stop_event, fl, hist>>

\* thread1.join(); thread2.join().  The record of the executor's results is
\* kept while the lanes of the phase exist.
JoinThreads ==
    /\ rpc = "join"
    /\ \A l \in Lanes : lane[l].pc \in {"off", "exit"}
    /\ lane' = [l \in Lanes |-> IdleLane]
    /\ hist' = [c \in Rows |-> NoCalls]
    /\ rpc' = "save"
    /\ UNCHANGED <<static, ledger_op, store, marker, excel_lock, extWrites, extLocks, phase,
                   contacts_df_full, driver, batch, q, final_statuses,
                   total_processed_count, stop_event, fl>>

\* _save_pending_updates: the copy of the ledger and the start of the
\* BatchUpdateThread (nothing is started for an empty copy)
SavePending ==
    /\ rpc = "save"
    /\ ledger_op' = Access("copy", "runner", TRUE)
    /\ IF final_statuses = EmptyMap
       THEN /\ rpc' = AfterSave
            /\ UNCHANGED fl
       ELSE /\ fl' = [fl EXCEPT ![phase] = [IdleFlush EXCEPT !.pc = "call",
                                                         !.map = final_statuses]]
            /\ rpc' = "savejoin"
    /\ UNCHANGED <<static, store, marker, excel_lock, extWrites, extLocks, phase,
                   contacts_df_full, driver, batch, q, final_statuses,
                   total_processed_count, stop_event, lane, hist>>

\* save_thread.join(timeout=30.0): the thread has ended.
JoinSave ==
    /\ rpc = "savejoin"
    /\ fl[phase].pc \in {"ok", "failed"}
    /\ rpc' = AfterSave
    /\ UNCHANGED <<static, ledger_op, store, marker, excel_lock, extWrites, extLocks, phase,
                   contacts_df_full, driver, batch, q, final_statuses,
                   total_processed_count, stop_event, lane, fl, hist>>

\* JoinSaveTimeout that gives the thread up when the wait times out
JoinSaveTimeoutAbort ==
    /\ rpc = "savejoin"
    /\ \/ fl[phase].pc = "save"
       \/ fl[phase].pc = "load" /\ excel_lock # "none"
    /\ rpc' = AfterSave
    /\ fl' = [fl EXCEPT ![phase] = [IdleFlush EXCEPT !.pc = "failed"]]
    /\ UNCHANGED <<static, ledger_op, store, marker, excel_lock, extWrites, extLocks, phase,
                   contacts_df_full, driver, batch, q, final_statuses,
                   total_processed_count, stop_event, lane, hist>>

\* save_thread.join(timeout=30.0): thirty seconds passed and the thread is
\* still alive; the runner goes on.  The attempt loop sleeps 2 s at most
\* max_attempts times: thirty seconds pass only while the thread reads or
\* writes the workbook or waits for excel_lock.
JoinSaveTimeout ==
    /\ rpc = "savejoin"
    /\ \/ fl[phase].pc = "save"
       \/ fl[phase].pc = "load" /\ excel_lock # "none"
    /\ rpc' = AfterSave
    /\ UNCHANGED <<static, ledger_op, store, marker, excel_lock, extWrites, extLocks, phase,
                   contacts_df_full, driver, batch, q, final_statuses,
                   total_processed_count, stop_event, lane, fl, hist>>

\* AfterPhase without the stop check
AfterPhaseNoStopCheck ==
    /\ rpc = "after"
    /\ rpc' = "reload"
    /\ UNCHANGED <<static, ledger_op, store, marker, excel_lock, extWrites, extLocks, phase,
                   contacts_df_full, driver, batch, q, final_statuses,
                   total_processed_count, stop_event, lane, fl, hist>>

\* _processing_runner after the Initial phase: the stop check
AfterPhase ==
    /\ rpc = "after"
    /\ rpc' = IF stop_event THEN "done" ELSE "reload"
    /\ UNCHANGED <<static, ledger_op, store, marker, excel_lock, extWrites, extLocks, phase,
                   contacts_df_full, driver, batch, q, final_statuses,
                   total_processed_count, stop_event, lane, fl, hist>>

\* The workbook is read again, the Retry batch is selected from it, the
\* drivers are validated (a driver that started for Initial may be gone and
\* its restart may fail) and _execute_processing_phase("Retry") is entered.
Reload ==
    /\ rpc = "reload"
    /\ contacts_df_full' = store
    /\ batch' = ComputeRetrySet(store)
    /\ \E d \in [Lanes -> BOOLEAN] :
         /\ \A l \in Lanes : d[l] => driver[l]
         /\ driver' = d
    /\ phase' = "Retry"
    /\ rpc' = "exec"
    /\ UNCHANGED <<static, ledger_op, store, marker, excel_lock, extWrites, extLocks, q,
                   final_statuses, total_processed_count, stop_event, lane,
                   fl, hist>>

\* ----------------------------------------------- message personalization
\* A text is a sequence of symbols: a letter, a blank, a bracket, a bar, or
\* a placeholder "{a}", "{b}" (a keyword in braces, taken as one symbol).
Placeholders == {"{a}", "{b}"}
Keywords == {"a", "b"}
KeyOf == ("{a}" :> "a") @@ ("{b}" :> "b")

\* urllib.parse.quote_plus on a symbol: letters stay, a blank becomes "+",
\* every other character its %XX escape.
quote_sym == (" " :> "+") @@ ("[" :> "%5B") @@ ("]" :> "%5D") @@ ("|" :> "%7C")
             @@ ("{a}" :> "%7Ba%7D") @@ ("{b}" :> "%7Bb%7D")

quote_plus(t) == [i \in DOMAIN t |-> IF t[i] \in DOMAIN quote_sym THEN quote_sym[t[i]] ELSE t[i]]

\* urllib.parse.unquote_plus on a symbol: "+" becomes a blank, an escape its
\* character, everything else stays.
unquote_sym == ("+" :> " ") @@ ("%5B" :> "[") @@ ("%5D" :> "]") @@ ("%7C" :> "|")
               @@ ("%7Ba%7D" :> "{a}") @@ ("%7Bb%7D" :> "{b}")

unquote_plus(t) == [i \in DOMAIN t |-> IF t[i] \in DOMAIN unquote_sym THEN unquote_sym[t[i]] ELSE t[i]]

RECURSIVE Flatten(_)
Flatten(ss) == IF ss = <<>> THEN <<>> ELSE Head(ss) \o Flatten(Tail(ss))

\* str.format(**format_data): the fields are replaced from left to right;
\* the first field whose keyword is no key of format_data raises KeyError
\* with that keyword.
str_format(t, fd) ==
    LET missing == {i \in DOMAIN t : t[i] \in Placeholders /\ KeyOf[t[i]] \notin DOMAIN fd}
    IN IF missing = {}
       THEN [raised |-> "none",
             text |-> Flatten([i \in DOMAIN t |->
                         IF t[i] \in Placeholders THEN fd[KeyOf[t[i]]] ELSE <<t[i]>>])]
       ELSE [raised |-> KeyOf[t[CHOOSE i \in missing : \A j \in missing : i <= j]],
             text |-> <<>>]

\* str.replace(old, ""): every occurrence of the symbol is removed
replace(t, old) == SelectSeq(t, LAMBDA sym : sym # old)

\* personalize_message, 3. Perform formatting: the formatted template, or
\* on a KeyError the template itself with the placeholder of the reported
\* keyword removed.
FormatTemplate(t, fd) ==
    LET r == str_format(t, fd)
    IN IF r.raised = "none" THEN r.text
       ELSE replace(t, CHOOSE sym \in Placeholders : KeyOf[sym] = r.raised)

\* The characters the class [^{}\[\]] of the spintax pattern leaves out
Excluded == {"[", "]"} \cup Placeholders

\* The matches of \[([^{}\[\]]+?)\] in a text, as <<start, end>>
Matches(t) ==
    {m \in (DOMAIN t) \X (DOMAIN t) :
        /\ t[m[1]] = "[" /\ t[m[2]] = "]"
        /\ m[2] > m[1] + 1
        /\ \A k \in (m[1] + 1)..(m[2] - 1) : t[k] \notin Excluded}

\* pattern.search(text): the leftmost match
search(t) == CHOOSE m \in Matches(t) : \A n \in Matches(t) : m[1] <= n[1]

\* str.split("|")
RECURSIVE split(_)
split(c) ==
    IF \A i \in DOMAIN c : c[i] # "|" THEN <<c>>
    ELSE LET i == CHOOSE k \in DOMAIN c : c[k] = "|" /\ \A j \in 1..(k - 1) : c[j] # "|"
         IN <<SubSeq(c, 1, i - 1)>> \o split(SubSeq(c, i + 1, Len(c)))

\* str.strip()
RECURSIVE strip(_)
strip(c) ==
    IF c # <<>> /\ Head(c) = " " THEN strip(Tail(c))
    ELSE IF c # <<>> /\ c[Len(c)] = " " THEN strip(SubSeq(c, 1, Len(c) - 1))
    ELSE c

\* options without the strip
options_raw(c) == split(c)

\* options = [opt.strip() for opt in match.group(1).split("|")]
options(c) == [i \in DOMAIN split(c) |-> strip(split(c)[i])]

\* every variable of the engine
engine == <<contacts, settings_ok, messages_map, docs_map, media_map, workbook, store,
            marker, excel_lock, extWrites, extLocks, rpc, phase, contacts_df_full, driver,
            batch, q, final_statuses, total_processed_count, stop_event, lane, fl, hist,
            ledger_op>>

\* personalize_message up to the call of parse_spintax: "" for an empty
\* template, else the template is decoded and formatted.
Personalize ==
    /\ render_pc = "call"
    /\ IF encoded_template = <<>>
       THEN /\ render_pc' = "done"
            /\ UNCHANGED <<personalized, text>>
       ELSE /\ personalized' = FormatTemplate(unquote_plus(encoded_template), format_data)
            /\ text' = personalized'
            /\ render_pc' = "spintax"
    /\ UNCHANGED <<engine, encoded_template, format_data>>

\* One turn of the loop of parse_spintax: the leftmost match is replaced by
\* a random choice of its options.
SpintaxStep ==
    /\ render_pc = "spintax"
    /\ Matches(text) # {}
    /\ LET m == search(text)
           opts == options(SubSeq(text, m[1] + 1, m[2] - 1))
       IN \E k \in DOMAIN opts :
            text' = SubSeq(text, 1, m[1] - 1) \o opts[k] \o SubSeq(text, m[2] + 1, Len(text))
    /\ UNCHANGED <<engine, encoded_template, format_data, personalized, render_pc>>

\* The pattern matches no more: parse_spintax returns and the text is
\* encoded again.
SpintaxReturn ==
    /\ render_pc = "spintax"
    /\ Matches(text) = {}
    /\ render_pc' = "done"
    /\ UNCHANGED <<engine, encoded_template, format_data, personalized, text>>

\* What personalize_message returns
Rendered == IF encoded_template = <<>> THEN <<>> ELSE quote_plus(text)

\* ------------------------------------------------------ specifications
\* The rows of the LIST sheet of the engine specification: an odd row
\* requests a text message only, an even row documents and media and no text.
Profile(i) ==
    IF i % 2 = 0
    THEN [phone |-> Cell("int", i), msg_code |-> "0", doc_code |-> "1", media_code |-> "1"]
    ELSE [phone |-> Cell("int", i), msg_code |-> "1", doc_code |-> "0", media_code |-> "0"]

FullMessages == ("1" :> <<"hello">>)
FullFiles == ("1" :> <<"a.pdf">>) @@ ("2" :> <<>>)

\* No call of personalize_message is under way.
NoRender ==
    /\ encoded_template = <<>>
    /\ format_data = EmptyMap
    /\ personalized = <<>>
    /\ text = <<>>
    /\ render_pc = "off"

InitRun ==
    /\ NoRender
    /\ marker = NoMarker
    /\ excel_lock = "none"
    /\ extWrites = 0
    /\ extLocks = 0
    /\ rpc = "idle"
    /\ phase = "none"
    /\ contacts_df_full = <<>>
    /\ driver = [l \in Lanes |-> FALSE]
    /\ batch = <<>>
    /\ q = [l \in Lanes |-> <<>>]
    /\ final_statuses = EmptyMap
    /\ total_processed_count = 0
    /\ stop_event = FALSE
    /\ lane = [l \in Lanes |-> IdleLane]
    /\ fl = [f \in Phases |-> IdleFlush]
    /\ hist = [c \in Rows |-> NoCalls]
    /\ ledger_op = NoAccess
    /\ workbook = "ok"

Init ==
    /\ contacts = [i \in 1..NumContacts |-> Profile(i)]
    /\ settings_ok = TRUE
    /\ messages_map = FullMessages
    /\ docs_map = FullFiles
    /\ media_map = FullFiles
    /\ store \in [1..NumContacts -> Statuses]
    /\ InitRun

\* One contact with any codes and any catalogs: a blank phone (0) or not,
\* codes "0", "1" (an entry of a full catalog) and "2" (an entry with no
\* file in DOCS and MEDIA, no entry in MSGS), each catalog empty or full,
\* timers that parse or do not.
Codes == {"0", "1", "2"}

InitContact ==
    /\ \E p \in {Cell("blank", 0), Cell("int", 1)}, m \in Codes, d \in Codes, e \in Codes :
         contacts = <<[phone |-> p, msg_code |-> m, doc_code |-> d, media_code |-> e]>>
    /\ settings_ok \in BOOLEAN
    /\ messages_map \in {EmptyMap, FullMessages}
    /\ docs_map \in {EmptyMap, FullFiles}
    /\ media_map \in {EmptyMap, FullFiles}
    /\ store = <<PENDING>>
    /\ InitRun

\* Three contacts A, B, C with persisted statuses PENDING, RETRY, INVALID; A
\* and B request a text message, C documents and media.
Row == [A |-> 1, B |-> 2, C |-> 3]
A == Row.A
B == Row.B
C == Row.C

InitE2E ==
    /\ contacts = [i \in 1..3 |-> [Profile(IF i = C THEN 2 ELSE 1) EXCEPT !.phone = Cell("int", i)]]
    /\ settings_ok = TRUE
    /\ messages_map = FullMessages
    /\ docs_map = FullFiles
    /\ media_map = FullFiles
    /\ store = <<PENDING, RETRY, INVALID>>
    /\ InitRun

LaneStep(l) ==
    \/ LaneLoop(l)
    \/ PcBegin(l)
    \/ PcSend(l)
    \/ PcSendCheck(l)
    \/ PcDocs(l)
    \/ PcDocsCheck(l)
    \/ PcMedia(l)
    \/ PcMediaCheck(l)
    \/ PcFinal(l)

FlushStep(f) ==
    \/ FlushCall(f)
    \/ FlushCheck(f)
    \/ FlushLoad(f)
    \/ FlushSave(f)
    \/ FlushRelease(f)

Next ==
    \/ run_blaster
    \/ stop_blaster
    \/ LoadBatch
    \/ SetupBrowsers
    \/ ExecPhase
    \/ RunPhaseAssign
    \/ StartThreads
    \/ JoinThreads
    \/ SavePending
    \/ JoinSave
    \/ JoinSaveTimeout
    \/ AfterPhase
    \/ Reload
    \/ \E l \in Lanes : LaneStep(l)
    \/ \E f \in Phases : FlushStep(f)
    \/ ExtLock
    \/ ExtWrite
    \/ ExtUnlock
    \/ Tick

Spec == Init /\ [][Next]_vars

\* One phase of the lanes on one contact of any shape: the run up to the
\* join of the lane threads.
NextContact ==
    \/ run_blaster
    \/ stop_blaster
    \/ LoadBatch
    \/ SetupBrowsers
    \/ ExecPhase
    \/ RunPhaseAssign
    \/ StartThreads
    \/ JoinThreads
    \/ \E l \in Lanes : LaneStep(l)

SpecContact == InitContact /\ [][NextContact]_vars

\* the run of the three contacts A, B, C
SpecE2E == InitE2E /\ [][Next]_vars

\* One phase of the lanes on contacts that all ask for a text (every second
\* one for a document and media too), all PENDING in the workbook, with
\* timers that parse or do not.
LaneProfile(i) ==
    [phone |-> Cell("int", i), msg_code |-> "1", doc_code |-> IF i % 2 = 0 THEN "1" ELSE "0",
     media_code |-> IF i % 2 = 0 THEN "1" ELSE "0"]

InitLanes ==
    /\ contacts = [i \in 1..NumContacts |-> LaneProfile(i)]
    /\ settings_ok \in BOOLEAN
    /\ messages_map = FullMessages
    /\ docs_map = FullFiles
    /\ media_map = FullFiles
    /\ store = [i \in 1..NumContacts |-> PENDING]
    /\ InitRun

SpecLanes == InitLanes /\ [][NextContact]_vars

\* The lanes on rows of the LIST sheet that may hold the same phone number
\* (nothing keeps two rows from it): the rows draw their numbers from two.
InitShared ==
    /\ \E p \in [1..NumContacts -> {1, 2}] :
         contacts = [i \in 1..NumContacts |-> [LaneProfile(i) EXCEPT !.phone = Cell("int", p[i])]]
    /\ settings_ok \in BOOLEAN
    /\ messages_map = FullMessages
    /\ docs_map = FullFiles
    /\ media_map = FullFiles
    /\ store = [i \in 1..NumContacts |-> PENDING]
    /\ InitRun

SpecShared == InitShared /\ [][NextContact]_vars

\* The assignment of a batch to the queues: AssignContacts contacts, each
\* PENDING (in the batch) or SENT (not in it), and the run up to the start of
\* the lane threads.  Nothing keeps two rows of the LIST sheet from holding
\* the same phone number: the rows draw their numbers from two.
InitAssign ==
    /\ \E p \in [1..AssignContacts -> {1, 2}] :
         contacts = [i \in 1..AssignContacts |-> [LaneProfile(i) EXCEPT !.phone = Cell("int", p[i])]]
    /\ settings_ok = TRUE
    /\ messages_map = FullMessages
    /\ docs_map = FullFiles
    /\ media_map = FullFiles
    /\ store \in [1..AssignContacts -> {PENDING, SENT}]
    /\ InitRun

NextAssign ==
    \/ run_blaster
    \/ LoadBatch
    \/ SetupBrowsers
    \/ ExecPhase
    \/ RunPhaseAssign
    \/ StartThreads

SpecAssign == InitAssign /\ [][NextAssign]_vars

\* perform_batch_update called with any map (empty or not, for numbers of
\* the sheet) on a workbook in any condition and with any statuses, with no
\* marker, a marker of another process, or an abandoned one; the other user
\* of the workbook acts meanwhile.  The caller waits for the thread.
WorkbookStates == {"ok", "no_sheet", "no_columns", "invalid", "flaky"}

\* The Phone cell of row i of the sheet: the rows take the kinds of cell in
\* turn.
CellKinds == <<"float", "padded", "int", "text">>
RawPhone(i) == Cell(CellKinds[((i - 1) % Len(CellKinds)) + 1], i)

FlushMaps == UNION {[ps -> Statuses] : ps \in SUBSET (1..NumContacts)}

InitFlush ==
    /\ contacts = [i \in 1..NumContacts |-> [Profile(i) EXCEPT !.phone = RawPhone(i)]]
    /\ settings_ok = TRUE
    /\ messages_map = FullMessages
    /\ docs_map = FullFiles
    /\ media_map = FullFiles
    /\ workbook \in WorkbookStates
    /\ NoRender
    /\ store \in [1..NumContacts -> Statuses]
    /\ marker \in {NoMarker, [owner |-> "ext", age |-> "fresh"],
                    [owner |-> "ext", age |-> "stale"]}
    /\ excel_lock = "none"
    /\ extWrites = 0
    /\ extLocks = 0
    /\ rpc = "savejoin"
    /\ phase = "Initial"
    /\ contacts_df_full = store
    /\ driver = [l \in Lanes |-> l = 1]
    /\ batch = <<>>
    /\ q = [l \in Lanes |-> <<>>]
    /\ final_statuses \in FlushMaps
    /\ total_processed_count = 0
    /\ stop_event = FALSE
    /\ lane = [l \in Lanes |-> IdleLane]
    /\ fl = [f \in Phases |-> IF f = "Initial"
                               THEN [IdleFlush EXCEPT !.pc = "call", !.map = final_statuses]
                               ELSE IdleFlush]
    /\ hist = [c \in Rows |-> NoCalls]
    /\ ledger_op = Access("copy", "runner", TRUE)

NextFlush ==
    \/ \E f \in Phases : FlushStep(f)
    \/ ExtLock
    \/ ExtWrite
    \/ ExtUnlock
    \/ Tick

SpecFlush == InitFlush /\ [][NextFlush]_vars

\* Longest template of the renderer specifications, in symbols.
MaxTemplate == 6

\* The sequences over a set of symbols, up to a length
SeqsUpTo(S, n) == UNION {[1..k -> S] : k \in 0..n}

\* The engine at rest, for the specifications of the renderer.
EngineIdle ==
    /\ contacts = [i \in 1..NumContacts |-> Profile(i)]
    /\ settings_ok = TRUE
    /\ messages_map = FullMessages
    /\ docs_map = FullFiles
    /\ media_map = FullFiles
    /\ workbook = "ok"
    /\ store = [i \in 1..NumContacts |-> PENDING]
    /\ marker = NoMarker
    /\ excel_lock = "none"
    /\ extWrites = 0
    /\ extLocks = 0
    /\ rpc = "idle"
    /\ phase = "none"
    /\ contacts_df_full = <<>>
    /\ driver = [l \in Lanes |-> FALSE]
    /\ batch = <<>>
    /\ q = [l \in Lanes |-> <<>>]
    /\ final_statuses = EmptyMap
    /\ total_processed_count = 0
    /\ stop_event = FALSE
    /\ lane = [l \in Lanes |-> IdleLane]
    /\ fl = [f \in Phases |-> IdleFlush]
    /\ hist = [c \in Rows |-> NoCalls]
    /\ ledger_op = NoAccess

\* personalize_message called with a template of text, placeholders and
\* brackets, and with a value (empty or not) for any of the keywords.
FieldValues == {<<>>, <<"v">>}
FormatData == UNION {[ks -> FieldValues] : ks \in SUBSET Keywords}

InitRender ==
    /\ EngineIdle
    /\ encoded_template \in {quote_plus(t) : t \in SeqsUpTo({"x", "[", "]"} \cup Placeholders, MaxTemplate)}
    /\ format_data \in FormatData
    /\ personalized = <<>>
    /\ text = <<>>
    /\ render_pc = "call"

NextRender == Personalize \/ SpintaxStep \/ SpintaxReturn

SpecRender == InitRender /\ [][NextRender]_vars

\* personalize_message called with a template of text, blanks, brackets and
\* bars (no placeholder), encoded or not.
InitSpintax ==
    /\ EngineIdle
    /\ \E t \in SeqsUpTo({"x", "y", " ", "[", "]", "|"}, MaxTemplate) :
         encoded_template \in {t, quote_plus(t)}
    /\ format_data = EmptyMap
    /\ personalized = <<>>
    /\ text = <<>>
    /\ render_pc = "call"

SpecSpintax == InitSpintax /\ [][NextRender]_vars

\* The lanes are threads of their own and the runner waits in join() for
\* them: a lane that can take a step eventually takes it (every wait of the
\* executor operations has a timeout), and the join returns once both lanes
\* have ended.  Nothing is assumed of the user who may stop the run.
SpecLanesFair ==
    /\ InitLanes
    /\ [][NextContact]_vars
    /\ \A l \in Lanes : WF_vars(LaneStep(l))
    /\ WF_vars(JoinThreads)

\* ------------------------------------------------------------- properties
InQueue(c) == \E l \in Lanes : c \in Range(q[l])
HasEntry(c) == phone(c) \in DOMAIN final_statuses
LiveLane == driver[1] \/ driver[2]

\* C1: in a phase with a live lane every contact of the batch is in the
\* ledger as RETRY when the lane threads are about to start, every contact of
\* the batch has a ledger entry while the lanes run and when the snapshot for
\* the flush is taken, and a contact still in a queue then (no lane dequeued
\* it) has entry RETRY.
C1_PreRegistered ==
    /\ rpc = "start" =>
            \A c \in Range(batch) : HasEntry(c) /\ final_statuses[phone(c)] = RETRY
    /\ (\E l \in Lanes : lane[l].pc # "off") => rpc = "join"
    /\ rpc = "join" => \A c \in Range(batch) : HasEntry(c)
    /\ (rpc = "save" /\ LiveLane) =>
            \A c \in Range(batch) :
                /\ HasEntry(c)
                /\ InQueue(c) => final_statuses[phone(c)] = RETRY

\* A snapshot is about to be taken after a cancelled phase: one contact of
\* the batch was sent and another was never dequeued.
C1_Witness ==
    /\ rpc = "save"
    /\ LiveLane
    /\ \E c, d \in Range(batch) :
         /\ InQueue(c)
         /\ HasEntry(d)
         /\ final_statuses[phone(d)] = SENT

\* C2: when the runner reads the workbook again to select the Retry batch,
\* the flush of the Initial phase (if the phase had anything to persist) has
\* ended and has written the workbook.
C2_ReloadAfterFlush ==
    rpc = "reload" => fl["Initial"].pc \in {"off", "ok"}

\* C3: a contact whose outcome of the Initial phase is SENT or INVALID is not
\* in the Retry batch (nobody but the program wrote the workbook).  When the
\* Retry phase is entered the ledger still holds the outcomes of Initial.
C3_TerminalAbsent ==
    (rpc = "exec" /\ phase = "Retry" /\ extWrites = 0) =>
        \A c \in Rows :
            (HasEntry(c) /\ final_statuses[phone(c)] \in {SENT, INVALID})
                => c \notin Range(batch)

\* C4: the Retry batch is the set of the contacts whose status in the
\* workbook, as read after the Initial phase, is RETRY, each once, whatever
\* the ledger holds.
C4_RetryBatchFromStore ==
    (rpc = "exec" /\ phase = "Retry") =>
        /\ contacts_df_full = store
        /\ Range(batch) = {c \in Rows : store[c] = RETRY}
        /\ Len(batch) = Cardinality(Range(batch))

\* The Retry phase is entered after a flush that succeeded, with a contact
\* the ledger has as SENT and an external write put back to RETRY.
C4_Witness ==
    /\ rpc = "exec"
    /\ phase = "Retry"
    /\ fl["Initial"].pc = "ok"
    /\ extWrites = 1
    /\ \E c \in Range(batch) : HasEntry(c) /\ final_statuses[phone(c)] = SENT

Skipped(c) == contacts_df_full[c] \notin {PENDING, RETRY}

\* C5: in the Initial phase a contact whose loaded status is neither PENDING
\* nor RETRY is in no batch and no queue, is held by no lane, has no ledger
\* entry and no entry in the map of the flush, no executor operation is
\* called for it, and its status in the workbook stays what it was (nobody
\* but the program writing the workbook).
C5_SkippedUntouched ==
    phase = "Initial" =>
        \A c \in Rows : Skipped(c) =>
            /\ c \notin Range(batch)
            /\ ~InQueue(c)
            /\ \A l \in Lanes : lane[l].cur # c
            /\ ~HasEntry(c)
            /\ phone(c) \notin DOMAIN fl["Initial"].map
            /\ hist[c] = NoCalls
            /\ extWrites = 0 => store[c] = contacts_df_full[c]

\* The flush of the Initial phase has written the workbook: the status of a
\* processed contact changed, and there is a skipped contact.
C5_Witness ==
    /\ phase = "Initial"
    /\ fl["Initial"].pc = "ok"
    /\ extWrites = 0
    /\ \E c, d \in Rows :
         /\ Skipped(c)
         /\ store[d] # contacts_df_full[d]

LanesEnded == rpc = "join" /\ \A l \in Lanes : lane[l].pc \in {"off", "exit"}
InitialOutcomes == (phone(A) :> SENT) @@ (phone(B) :> RETRY)
AfterInitial == <<SENT, RETRY, INVALID>>

\* C6: contacts A (PENDING), B (RETRY), C (INVALID).  The Initial batch is A
\* and B, and a phase that is not cancelled hands A and B to a lane and never
\* C; when the text send returned SENT for A and FAILED for B the ledger is
\* A = SENT, B = RETRY; the flush of that ledger, when it succeeds with no
\* other writer of the workbook, leaves the workbook at A = SENT, B = RETRY,
\* C = INVALID; the reload then reads these statuses and the Retry batch is
\* B alone; and the Retry phase hands B to a lane and calls no executor
\* operation for A or C.
C6_EndToEnd ==
    /\ phase = "Initial" =>
            /\ batch = <<A, B>>
            /\ hist[C] = NoCalls
            /\ ~HasEntry(C)
    /\ (phase = "Initial" /\ LanesEnded /\ ~stop_event) =>
            /\ hist[A].lane # 0
            /\ hist[B].lane # 0
            /\ (hist[A].text = "SENT" /\ hist[B].text = "FAILED")
                    => final_statuses = InitialOutcomes
    /\ (phase = "Initial" /\ fl["Initial"].pc = "ok" /\ extWrites = 0
            /\ final_statuses = InitialOutcomes) => store = AfterInitial
    /\ (phase = "Retry" /\ rpc = "exec" /\ fl["Initial"].pc = "ok" /\ extWrites = 0
            /\ final_statuses = InitialOutcomes) =>
            /\ contacts_df_full = AfterInitial
            /\ batch = <<B>>
    /\ (phase = "Retry" /\ contacts_df_full = AfterInitial) =>
            /\ batch = <<B>>
            /\ hist[A] = NoCalls
            /\ hist[C] = NoCalls
            /\ (LanesEnded /\ ~stop_event) => hist[B].lane # 0

\* The run with one live lane reached the end of the Retry phase through a
\* flush that succeeded: B was handed to the lane again.
C6_Witness ==
    /\ phase = "Retry"
    /\ LanesEnded
    /\ ~stop_event
    /\ driver[1] # driver[2]
    /\ fl["Initial"].pc = "ok"
    /\ extWrites = 0
    /\ contacts_df_full = AfterInitial
    /\ store = AfterInitial
    /\ hist[B].lane # 0

\* process_contact was called for c and has returned
Processed(c) == hist[c].lane # 0 /\ \A l \in Lanes : lane[l].cur # c
\* ... for a contact with a phone number, in a phase that was not cancelled
Completed(c) == Processed(c) /\ ~stop_event /\ phone(c) # 0
Outcome(c) == final_statuses[phone(c)]
NoExecutorCall(c) ==
    hist[c].text = "NONE" /\ hist[c].docs = "NONE" /\ hist[c].media = "NONE"

BadCode(c) ==
    \/ contacts[c].msg_code # "0" /\ contacts[c].msg_code \notin DOMAIN messages_map
    \/ contacts[c].doc_code # "0" /\ contacts[c].doc_code \notin DOMAIN docs_map
    \/ contacts[c].media_code # "0" /\ contacts[c].media_code \notin DOMAIN media_map

\* C7: the validation gives INVALID exactly for a contact one of whose codes
\* is not "0" and is no key of its catalog (a code "0" never does, whatever
\* the catalog holds); no executor operation is ever called for such a
\* contact and its outcome is INVALID; a contact with no such code ends
\* INVALID only when the text send returned INVALID.
C7_Validation ==
    \A c \in Rows :
        /\ Validation(c) = INVALID <=> BadCode(c)
        /\ BadCode(c) => NoExecutorCall(c)
        /\ (Completed(c) /\ BadCode(c)) => Outcome(c) = INVALID
        /\ (Completed(c) /\ ~BadCode(c) /\ Outcome(c) = INVALID)
                => hist[c].text = "INVALID"

\* A contact with message code "0" and an empty MSGS catalog, and a media
\* code that the empty MEDIA catalog does not hold, ended INVALID.
C7_Witness ==
    \E c \in Rows :
        /\ Completed(c)
        /\ contacts[c].msg_code = "0"
        /\ messages_map = EmptyMap
        /\ contacts[c].media_code = "1"
        /\ media_map = EmptyMap
        /\ Outcome(c) = INVALID

\* C8 as stated: a contact none of message, documents and media applies to
\* ends SENT.
C8_NoneAppliesSent ==
    \A c \in Rows :
        (Completed(c) /\ ~(has_message(c) \/ has_docs(c) \/ has_media(c)))
            => Outcome(c) = SENT

Absent(code, catalog) ==
    code = "0" \/ (code \in DOMAIN catalog /\ catalog[code] = <<>>)

NothingToSend(c) ==
    /\ Absent(contacts[c].msg_code, messages_map)
    /\ Absent(contacts[c].doc_code, docs_map)
    /\ Absent(contacts[c].media_code, media_map)

\* C8, amended: a contact each of whose codes is "0" or the key of an empty
\* entry of its catalog ends SENT, and no executor operation is ever called
\* for it.
C8_NothingToSendSent ==
    \A c \in Rows :
        /\ NothingToSend(c) => NoExecutorCall(c)
        /\ (Completed(c) /\ NothingToSend(c)) => Outcome(c) = SENT

\* A contact whose only code names an entry of DOCS with no file ended SENT.
C8_Witness ==
    \E c \in Rows :
        /\ Completed(c)
        /\ contacts[c].msg_code = "0"
        /\ contacts[c].doc_code = "2"
        /\ contacts[c].media_code = "0"
        /\ docs_map = FullFiles
        /\ Outcome(c) = SENT

C10_AttachFailure ==
    \A c \in Rows :
        /\ hist[c].docs = "FAIL" => hist[c].media = "NONE"
        /\ (Completed(c) /\ (hist[c].docs = "FAIL" \/ hist[c].media = "FAIL"))
                => Outcome(c) = RETRY

\* A contact whose text was sent and whose documents failed ended RETRY, its
\* media never attached.
C10_Witness ==
    \E c \in Rows :
        /\ Completed(c)
        /\ has_media(c)
        /\ hist[c].text = "SENT"
        /\ hist[c].docs = "FAIL"
        /\ Outcome(c) = RETRY

\* Every step the contact asks for returned success.
AllStepsSucceeded(c) ==
    /\ has_message(c) => hist[c].text = "SENT"
    /\ has_docs(c) => hist[c].docs = "OK"
    /\ has_media(c) => hist[c].media = "OK"

C12_ExceptionKeepsLane ==
    /\ \A c \in Rows : (Completed(c) /\ hist[c].exc # "none") => Outcome(c) = RETRY
    /\ \A l \in Lanes : (lane[l].pc = "exit" /\ ~stop_event) => q[l] = <<>>

\* A lane processed a contact for which the handler of process_contact
\* caught an exception, and after it the next contact of its queue.
C12_Witness ==
    \E c \in Rows, d \in Rows :
        /\ c < d
        /\ hist[c].lane # 0 /\ hist[c].lane = hist[d].lane
        /\ hist[c].exc = "handler"
        /\ Completed(c) /\ Completed(d)
        /\ Outcome(c) = RETRY
        /\ lane[hist[c].lane].pc = "exit"

\* C13: once the driver of a lane reported a disconnect while a contact was
\* processed, the lane dequeues no further contact (the contacts left in
\* its queue keep their pre-registered RETRY).
C13_DisconnectEndsLane ==
    \A c \in Rows, d \in Rows :
        (hist[c].exc = "disconnected" /\ c < d) => hist[d].lane # hist[c].lane

\* C14: the loop of every started lane eventually ends (on an empty queue,
\* which it never waits on, or on the stop), and the join of the lanes
\* always returns.
C14_LanesTerminate ==
    /\ \A l \in Lanes : (lane[l].pc = "loop") ~> (lane[l].pc \in {"exit", "off"})
    /\ (rpc = "join") ~> (rpc = "save")

\* The join returned in a phase that was not cancelled: every contact of
\* the batch was processed and both queues are empty.
C14_Witness ==
    /\ rpc = "save"
    /\ ~stop_event
    /\ Len(batch) > 1
    /\ total_processed_count = Len(batch)
    /\ \A l \in Lanes : q[l] = <<>>

\* The points at which a lane reads the stop event next.
AtStopCheck(l) == lane[l].pc \in {"loop", "begin", "sendchk", "docschk", "mediachk"}

\* C15: a lane that stands at a check of the stop event while the event is
\* set dequeues no contact and calls no executor operation from then on (it
\* goes back to the head of its loop and leaves it), and the contacts no lane
\* dequeued are RETRY in the ledger copy handed to the flush.
C15_NoWorkAfterStop ==
    /\ [][\A l \in Lanes :
            (stop_event /\ AtStopCheck(l)) =>
                /\ q'[l] = q[l]
                /\ \A c \in Rows : hist[c].lane = l => hist'[c] = hist[c]
                /\ \A c \in Rows : hist'[c].lane = l => hist[c].lane = l
                /\ lane'[l].pc \in {lane[l].pc, "loop", "exit"}]_vars
    /\ [][(rpc = "save" /\ rpc' = "savejoin") =>
            /\ fl'[phase].map = final_statuses
            /\ \A c \in Range(batch) :
                    InQueue(c) => HasEntry(c) /\ fl'[phase].map[phone(c)] = RETRY]_vars

\* The ledger of a cancelled phase is being flushed: one contact was sent
\* and another, never dequeued, is RETRY in the copy of the flush.
C15_Witness ==
    /\ rpc = "savejoin"
    /\ stop_event
    /\ fl[phase].pc = "call"
    /\ \E c, d \in Range(batch) :
         /\ InQueue(c)
         /\ phone(c) \in DOMAIN fl[phase].map
         /\ phone(d) \in DOMAIN fl[phase].map
         /\ fl[phase].map[phone(c)] = RETRY
         /\ fl[phase].map[phone(d)] = SENT

\* A contact with a phone number for which an executor operation was called
\* and whose processing has ended.
Began(c) == Processed(c) /\ phone(c) # 0 /\ ~NoExecutorCall(c)

\* Every step of the contact that the results so far ask for was taken.
StepsDone(c) ==
    /\ (hist[c].text = "SENT" /\ has_docs(c)) => hist[c].docs # "NONE"
    /\ (has_media(c) /\ hist[c].text \notin {"INVALID", "FAILED"} /\ hist[c].docs # "FAIL")
            => hist[c].media # "NONE"

\* The outcome the results of the executor stand for.
Expected(c) ==
    IF hist[c].text = "INVALID" THEN INVALID
    ELSE IF AllStepsSucceeded(c) THEN SENT
    ELSE RETRY

SequenceComplete(c) == StepsDone(c) /\ Outcome(c) = Expected(c)

\* C16, as claimed: the stop event is read at one point per contact only, so
\* a contact for which an executor operation was called is never abandoned
\* between its steps: all its steps are taken and its outcome is recorded.
C16_NeverAbandoned ==
    \A c \in Rows : Began(c) => SequenceComplete(c)

\* C16, amended: the stop event is read again after each executor operation
\* returned; a contact is abandoned between its steps only when the stop
\* event is set, and it then keeps its pre-registered RETRY.
C16_AbandonedOnlyOnStop ==
    \A c \in Rows :
        Began(c) => (SequenceComplete(c) \/ (stop_event /\ Outcome(c) = RETRY))

\* The text of a contact with documents was sent, the run was stopped, and
\* the contact ended RETRY with its documents never attached.
C16_Witness ==
    \E c \in Rows :
        /\ Began(c)
        /\ stop_event
        /\ has_docs(c)
        /\ hist[c].text = "SENT"
        /\ hist[c].docs = "NONE"
        /\ Outcome(c) = RETRY

\* C17: when the stop event is set before the runner's check after the
\* Initial phase, the runner never reads the workbook again, selects no Retry
\* batch and enters no Retry phase; the run ends in the Initial phase only
\* on a stop, and then the flush of the Initial ledger was started before.
C17_StopAbortsAfterInitial ==
    /\ [][(stop_event /\ phase \in {"none", "Initial"} /\ rpc # "reload") =>
            /\ rpc' # "reload"
            /\ phase' # "Retry"
            /\ phase = "Initial" => (contacts_df_full' = contacts_df_full /\ batch' = batch)]_vars
    /\ []((rpc = "done" /\ phase = "Initial") =>
            /\ stop_event
            /\ batch # <<>> => fl["Initial"].pc # "off")

\* A run stopped in the Initial phase has ended: its ledger was written to
\* the workbook, where a contact is left RETRY and is not retried.
C17_Witness ==
    /\ rpc = "done"
    /\ phase = "Initial"
    /\ stop_event
    /\ fl["Initial"].pc = "ok"
    /\ \E c \in Range(batch), d \in Range(batch) :
         /\ contacts_df_full[c] = PENDING /\ store[c] = RETRY
         /\ contacts_df_full[d] = PENDING /\ store[d] = SENT

\* A phase with contacts entered with no live lane
NoLanePhase == phase \in Phases /\ ~LiveLane /\ batch # <<>>

\* C18: in a phase entered with no live lane nothing is dispatched (no lane
\* runs, no executor operation is called, both queues are empty), every
\* contact of the batch is RETRY in the ledger when the ledger is saved, and
\* the flush of the phase is started with these entries.
C18_NoLaneAllRetry ==
    NoLanePhase =>
        /\ rpc \in {"exec", "save", "savejoin", "done"}
        /\ \A l \in Lanes : lane[l].pc = "off" /\ q[l] = <<>>
        /\ \A c \in Rows : hist[c] = NoCalls
        /\ rpc \in {"save", "savejoin"} =>
                \A c \in Range(batch) : HasEntry(c) /\ final_statuses[phone(c)] = RETRY
        /\ rpc \in {"savejoin", "done"} =>
                /\ fl[phase].pc # "off"
                /\ fl[phase].map # EmptyMap =>
                        \A c \in Range(batch) :
                            /\ phone(c) \in DOMAIN fl[phase].map
                            /\ fl[phase].map[phone(c)] = RETRY

\* The Retry phase was entered with both browsers gone: the flush of its
\* ledger, in which the contact of the batch is RETRY, has been started.
C18_Witness ==
    /\ NoLanePhase
    /\ rpc = "savejoin"
    /\ fl[phase].pc = "call"
    /\ \A c \in Range(batch) :
         /\ phone(c) \in DOMAIN fl[phase].map
         /\ fl[phase].map[phone(c)] = RETRY

\* C19: a run that was aborted because no browser could be started has
\* persisted its ledger: every contact that was eligible (PENDING or RETRY
\* when the workbook was loaded) is RETRY in the workbook when the run ends.
C19_NoLanesPersisted ==
    (rpc = "done" /\ phase = "none") =>
        \A c \in Rows :
            contacts_df_full[c] \in {PENDING, RETRY} => store[c] = RETRY

\* Position of a contact in the batch
Pos(c) == CHOOSE i \in DOMAIN batch : batch[i] = c

\* C20: when the queues have been filled, with two live lanes the contact
\* at (0-based) index i of the batch is in the queue of lane (i mod 2) (the
\* first lane for even i), so 4 contacts give two queues of length 2; with
\* one live lane its queue is the whole batch and the other queue is empty;
\* every queue keeps the order of the batch and every contact is in exactly
\* one queue.
C20_RoundRobin ==
    (rpc = "start") =>
        /\ (driver[1] /\ driver[2]) =>
                /\ \A i \in DOMAIN batch : batch[i] \in Range(q[((i - 1) % 2) + 1])
                /\ Len(q[1]) = (Len(batch) + 1) \div 2
                /\ Len(q[2]) = Len(batch) \div 2
                /\ Len(batch) = 4 => (Len(q[1]) = 2 /\ Len(q[2]) = 2)
        /\ \A l \in Lanes :
                (driver[l] /\ ~driver[3 - l]) => (q[l] = batch /\ q[3 - l] = <<>>)
        /\ \A l \in Lanes : \A j \in DOMAIN q[l], k \in DOMAIN q[l] :
                j < k => Pos(q[l][j]) < Pos(q[l][k])
        /\ \A l \in Lanes : Range(q[l]) \subseteq Range(batch)
        /\ \A c \in Range(batch) : \E l \in Lanes :
                c \in Range(q[l]) /\ c \notin Range(q[3 - l])
        /\ Len(q[1]) + Len(q[2]) = Len(batch)

\* Four contacts were assigned to two live lanes: two queues of length 2,
\* the first and third contact in the first, the others in the second.
C20_Witness ==
    /\ rpc = "start"
    /\ driver[1] /\ driver[2]
    /\ Len(batch) = 4
    /\ q[1] = <<batch[1], batch[3]>>
    /\ q[2] = <<batch[2], batch[4]>>

\* C21: when the queues have been filled, no contact in the queue of one
\* lane has the phone number of a contact in the queue of the other lane.
C21_NoSharedIdentity ==
    (rpc = "start") =>
        \A c \in Range(q[1]), d \in Range(q[2]) : phone(c) # phone(d)

\* C22: every access to the ledger that changes it (a set of an entry, a
\* clear) or copies it for a flush is made while status_update_lock is held.
C22_LedgerLocked ==
    ledger_op.op \in {"set", "clear", "copy"} => ledger_op.locked

\* C23: when the copy of the ledger for the flush of a phase is about to be
\* taken, every phone number in the ledger is that of a contact of the batch
\* of the phase (the ledger was cleared when the phase began).
C23_OnlyThisPhase ==
    (rpc = "save") =>
        \A p \in DOMAIN final_statuses : \E c \in Range(batch) : phone(c) = p

\* C24: perform_batch_update called with an empty map returns True in one
\* step that leaves the lock marker, excel_lock and the workbook as they
\* are: a flush thread that tests the marker, or reads or writes the
\* workbook, has a map that is not empty.
C24_EmptyMapNoop ==
    /\ [][\A f \in Phases :
            (fl[f].pc = "call" /\ fl[f].map = EmptyMap /\ fl'[f] # fl[f]) =>
                /\ fl'[f].pc = "ok"
                /\ marker' = marker
                /\ excel_lock' = excel_lock
                /\ store' = store]_vars
    /\ [](\A f \in Phases :
            fl[f].pc \in {"check", "load", "save", "release"} => fl[f].map # EmptyMap)

\* The flush of an empty ledger has returned True although the workbook is
\* locked by a marker of another process, which is still in place.
C24_Witness ==
    /\ final_statuses = EmptyMap
    /\ fl["Initial"].pc = "ok"
    /\ marker = [owner |-> "ext", age |-> "fresh"]
    /\ extLocks = 0
    /\ store = contacts_df_full

\* C25: a flush thread that finds a marker younger than 60 s spends an
\* attempt and leaves the marker and the workbook as they are; the
\* max_attempts-th spent attempt ends the flush with failure.  A thread that
\* finds a marker older than 60 s removes it and goes on to load the
\* workbook in the same attempt.
C25_LockRetry ==
    [][\A f \in Phases :
        (fl[f].pc = "check" /\ marker.owner # "none" /\ fl'[f] # fl[f]) =>
            IF marker.age = "fresh"
            THEN /\ marker' = marker
                 /\ store' = store
                 /\ IF fl[f].attempt < max_attempts - 1
                    THEN fl'[f].pc = "check" /\ fl'[f].attempt = fl[f].attempt + 1
                    ELSE fl'[f].pc = "failed"
            ELSE /\ marker' = NoMarker
                 /\ store' = store
                 /\ fl'[f].pc = "load"
                 /\ fl'[f].attempt = fl[f].attempt]_vars

\* A flush of a readable workbook has failed: the marker of the other
\* process is still in place and the workbook is as it was.
C25_Witness ==
    /\ fl["Initial"].pc = "failed"
    /\ workbook = "ok"
    /\ marker = [owner |-> "ext", age |-> "fresh"]
    /\ extLocks = 0
    /\ final_statuses # EmptyMap
    /\ store = contacts_df_full

\* C26: when a flush thread has returned (with success or with failure), no
\* marker that it created is left on the workbook.
C26_MarkerReleased ==
    \A f \in Phases : fl[f].pc \in {"ok", "failed"} => marker.owner # f

\* The flush thread f takes a step from the load of the workbook.
LoadStep(f) == fl[f].pc = "load" /\ fl'[f] # fl[f]

\* C27, as claimed: a load of the workbook that fails, for whatever reason,
\* ends the flush with failure at once.
C27_LoadFailureTerminal ==
    [][\A f \in Phases :
        (LoadStep(f) /\ fl'[f].pc # "save") => fl'[f].pc = "failed"]_vars

\* C27, amended: a workbook without the LIST sheet, without the Phone or
\* Status column, or rejected as an invalid file ends the flush with failure
\* at the first load, the marker removed and the workbook untouched; any
\* other exception of the load only spends the attempt, and the loop goes
\* on to its next attempt (if one is left) with the marker left in place.
C27_StructuralTerminal ==
    [][\A f \in Phases :
        LoadStep(f) =>
            IF workbook \in {"no_sheet", "no_columns", "invalid"}
            THEN /\ fl'[f].pc = "failed"
                 /\ marker' = NoMarker
                 /\ store' = store
            ELSE \/ fl'[f].pc = "save"
                 \/ /\ fl[f].attempt < max_attempts - 1
                    /\ fl'[f].pc = "check"
                    /\ fl'[f].attempt = fl[f].attempt + 1
                    /\ marker' = marker
                    /\ store' = store
                 \/ /\ fl[f].attempt = max_attempts - 1
                    /\ fl'[f].pc = "failed"
                    /\ marker' = NoMarker
                    /\ store' = store]_vars

\* The flush of an invalid workbook that no other process locked has
\* failed: no marker is left and the workbook is as it was.
C27_Witness ==
    /\ workbook = "invalid"
    /\ fl["Initial"].pc = "failed"
    /\ marker = NoMarker
    /\ extLocks = 0
    /\ final_statuses # EmptyMap
    /\ store = contacts_df_full

\* C28: the save of a flush sets the status of every row whose phone number
\* (as the loader normalizes it) is a key of the map to the mapped status,
\* and leaves the status of every other row as it was loaded, which is the
\* status the row has in the workbook unless another process wrote it.
C28_MatchingRowsUpdated ==
    [][\A f \in Phases :
        (fl[f].pc = "save" /\ fl'[f].pc = "release") =>
            \A r \in Rows :
                IF phone(r) \in DOMAIN fl[f].map
                THEN store'[r] = fl[f].map[phone(r)]
                ELSE /\ store'[r] = fl[f].wb[r]
                     /\ extWrites = 0 => store'[r] = store[r]]_vars

\* A flush has written the workbook: the row whose number is held as a
\* float and is a key of the map has a new status, and a row whose number
\* is no key has the status it had.
C28_Witness ==
    /\ fl["Initial"].pc = "release"
    /\ extWrites = 0
    /\ \E r \in Rows, u \in Rows :
         /\ contacts[r].phone.kind = "float"
         /\ phone(r) \in DOMAIN final_statuses
         /\ store[r] = final_statuses[phone(r)]
         /\ store[r] # contacts_df_full[r]
         /\ phone(u) \notin DOMAIN final_statuses
         /\ store[u] = contacts_df_full[u]

\* C29: when the wait for the persistence thread times out (the runner leaves
\* its wait while the thread has neither succeeded nor failed), the flush is
\* not aborted: the step leaves the thread, the workbook, its marker and
\* excel_lock as they are, and the runner goes on with its sequence (the stop
\* check after Initial, the end of the run after Retry).
C29_TimeoutKeepsFlush ==
    [][(rpc = "savejoin" /\ rpc' # "savejoin" /\ fl[phase].pc \notin {"ok", "failed"}) =>
          /\ fl' = fl
          /\ store' = store
          /\ marker' = marker
          /\ excel_lock' = excel_lock
          /\ rpc' = AfterSave]_vars

\* The run has reported the Retry phase complete and a flush that the runner
\* stopped waiting for has gone on in the background: it has written the
\* workbook and is still to release the lock.
C29_Witness ==
    /\ rpc = "done"
    /\ phase = "Retry"
    /\ \E f \in Phases : fl[f].pc = "release" /\ marker.owner = f

\* C30: a flush that has failed because the lock could not be acquired in
\* max_attempts attempts leaves the ledger as it is (the failing step changes
\* no entry), and from then on the outcomes stay in the ledger for a later
\* flush: an identity recorded SENT stays in the ledger, recorded SENT.
C30_OutcomesKept ==
    [][\A f \in Phases :
          /\ (fl[f].pc # "failed" /\ fl'[f].pc = "failed") =>
                final_statuses' = final_statuses
          /\ fl[f].pc = "failed" =>
                \A p \in DOMAIN final_statuses :
                    final_statuses[p] = SENT =>
                        p \in DOMAIN final_statuses' /\ final_statuses'[p] = SENT]_vars

\* C31: within a lane the contacts are processed in the order in which the
\* assigner put them in the lane's queue (the order of the batch restricted
\* to the lane), one after the other: when a lane takes a contact, it holds
\* no other contact, the contact is the next of the lane's part of the batch,
\* and every earlier one of that part was taken by this lane before.
C31_LaneOrder ==
    [][\A l \in Lanes :
          (lane[l].pc = "loop" /\ lane'[l].pc = "begin") =>
              LET full == QueueOf(l, batch, driver)
                  k == Len(full) - Len(q[l])
              IN /\ lane[l].cur = 0
                 /\ k >= 0 /\ k < Len(full)
                 /\ lane'[l].cur = full[k + 1]
                 /\ q'[l] = SubSeq(full, k + 2, Len(full))
                 /\ \A j \in 1..k : hist[full[j]].lane = l /\ lane[3 - l].cur # full[j]]_vars

\* A lane has finished the first contact of its queue and holds the second.
C31_Witness ==
    \E l \in Lanes :
        LET full == QueueOf(l, batch, driver)
        IN /\ Len(full) >= 2
           /\ lane[l].pc = "begin"
           /\ lane[l].cur = full[2]
           /\ hist[full[1]].lane = l
           /\ total_processed_count = 1

\* The template with every placeholder replaced by the value of its keyword,
\* or by the empty text when the keyword has none.
Substituted(t, fd) ==
    Flatten([i \in DOMAIN t |->
        IF t[i] \in Placeholders
        THEN IF KeyOf[t[i]] \in DOMAIN fd THEN fd[KeyOf[t[i]]] ELSE <<>>
        ELSE <<t[i]>>])

\* C32: the formatting of personalize_message replaces every placeholder
\* whose keyword has a value by that value and every placeholder without one
\* by the empty text, whatever mix of them the template holds.
C32_AllSubstituted ==
    render_pc \in {"spintax", "done"} /\ encoded_template # <<>> =>
        personalized = Substituted(unquote_plus(encoded_template), format_data)

\* A template of text and spintax groups only: every "[" opens a group that
\* the next "]" closes, a group holds at least one symbol and no bracket, and
\* no "]" stands outside a group.
RECURSIVE GroupsOnly(_, _)
GroupsOnly(t, inGroup) ==
    IF t = <<>> THEN ~inGroup
    ELSE CASE Head(t) = "[" -> ~inGroup /\ Len(t) >= 2 /\ t[2] # "]" /\ GroupsOnly(Tail(t), TRUE)
           [] Head(t) = "]" -> inGroup /\ GroupsOnly(Tail(t), FALSE)
           [] Head(t) \in Placeholders -> FALSE
           [] OTHER -> GroupsOnly(Tail(t), inGroup)

\* The options a group declares, each without the blanks around it
Declared(c) == {strip(split(c)[i]) : i \in DOMAIN split(c)}

\* The texts a template of text and groups may be rendered as: the text
\* outside the groups as it is, and one declared option for each group.
RECURSIVE Renderings(_)
Renderings(t) ==
    IF t = <<>> THEN {<<>>}
    ELSE IF Head(t) = "["
    THEN LET j == CHOOSE k \in DOMAIN t : t[k] = "]" /\ \A i \in 1..(k - 1) : t[i] # "]"
         IN {o \o r : o \in Declared(SubSeq(t, 2, j - 1)),
                      r \in Renderings(SubSeq(t, j + 1, Len(t)))}
    ELSE {<<Head(t)>> \o r : r \in Renderings(Tail(t))}

\* C33: for a template of text and spintax groups only, the rendered text is
\* the template with every group replaced by one of the options the group
\* declares (without the blanks around it) and the text outside the groups
\* unchanged; no bracket is left, and the result is that text encoded.
C33_SpintaxResolved ==
    LET t == unquote_plus(encoded_template)
    IN (render_pc = "done" /\ GroupsOnly(t, FALSE)) =>
          /\ text \in Renderings(t)
          /\ \A i \in DOMAIN text : text[i] \notin {"[", "]"}
          /\ unquote_plus(Rendered) = text

\* A template with a group of two options, one of them with a blank before
\* it, has been rendered with that option.
C33_Witness ==
    /\ render_pc = "done"
    /\ unquote_plus(encoded_template) = <<"[", "y", "|", " ", "x", "]">>
    /\ text = <<"x">>

\* A flush thread is between a successful acquisition of the advisory lock
\* (is_file_locked returned False) and its release.
Inside(f) == fl[f].pc \in {"load", "save", "release"}

\* The other process is between its acquisition of the lock in this run and
\* its release.
ExtInside == marker.owner = "ext" /\ extLocks > 0

\* C34: the advisory lock gives mutual exclusion between the flushers of a
\* workbook: no two of them (threads of this process, or a thread and
\* another process) are at the same time between a successful acquisition
\* and their release.
C34_MutualExclusion ==
    /\ \A f \in Phases : ~(Inside(f) /\ ExtInside)
    /\ \A f \in Phases, g \in Phases : f # g => ~(Inside(f) /\ Inside(g))

\* C35: when the lanes of a phase have ended, a contact for which every step
\* it asks for was executed and returned success (the text send SENT, each
\* attach true) is SENT in the ledger, which is the ledger the flush of the
\* phase is given; also when the stop event was set while the contact was
\* processed.
C35_SucceededIsSent ==
    LanesEnded =>
        \A c \in Range(batch) :
            (hist[c].lane # 0 /\ phone(c) # 0 /\ ~NoExecutorCall(c) /\ AllStepsSucceeded(c))
                => Outcome(c) = SENT

\* The number of places a contact holds in the queues
Queued(c, qs) ==
    Cardinality({<<l, i>> \in Lanes \X (1..Len(batch)) : i \in DOMAIN qs[l] /\ qs[l][i] = c})

\* C36: a contact of a batch is taken from a queue by at most one lane and
\* at most once in its phase: the assigner puts it in at most one queue, at
\* one place, and a lane takes a contact that no lane has taken in the phase
\* and that is in no queue afterwards.  The queues are filled once in a
\* phase (the runner comes to a phase only by going from the Initial phase to
\* the Retry phase, and to the assignment only from the start of a phase), so
\* a contact is handed to the executor at most twice in a run.
C36_AtMostOnce ==
    [][/\ (rpc = "assign" /\ rpc' = "start") =>
            /\ \A c \in Rows : Queued(c, q') <= 1
            /\ \A c \in Rows : Queued(c, q') = 1 => c \in Range(batch)
            /\ \A c \in Rows : hist[c].lane = 0
       /\ \A l \in Lanes :
            (lane[l].pc = "loop" /\ lane'[l].pc = "begin") =>
                LET c == lane'[l].cur
                IN /\ c \in Range(batch)
                   /\ hist[c].lane = 0
                   /\ \A k \in Lanes : lane[k].cur # c
                   /\ Queued(c, q) = 1
                   /\ Queued(c, q') = 0
       /\ \A c \in Rows : (hist[c].lane # 0 /\ hist'[c].lane # 0) => hist'[c].lane = hist[c].lane
       /\ q' # q => (rpc = "assign" \/ \E l \in Lanes : lane[l].pc = "loop")
       /\ (rpc' = "assign" /\ rpc # "assign") => rpc = "exec"
       /\ (rpc' = "exec" /\ phase' = phase) => rpc = "exec"
       /\ phase' # phase => \/ phase = "none" /\ phase' = "Initial"
                            \/ phase = "Initial" /\ phase' = "Retry"]_vars

\* A contact is held by a lane in the Retry phase, after the Initial phase
\* was flushed with no other writer of the workbook: its second dispatch.
C36_Witness ==
    /\ phase = "Retry"
    /\ fl["Initial"].pc = "ok"
    /\ extWrites = 0
    /\ \E l \in Lanes : lane[l].pc = "send" /\ hist[lane[l].cur].lane = l

\* C37: while the lanes of a phase run (after the pre-registration, before
\* the flush), the ledger is changed only by a lane that ends the processing
\* of the contact it took, and only in the entry of that contact; an entry
\* that has become SENT or INVALID is not changed any more, so it is never
\* replaced by RETRY.
C37_WrittenOnce ==
    [][rpc = "join" =>
          /\ DOMAIN final_statuses' = DOMAIN final_statuses
          /\ \A p \in DOMAIN final_statuses :
                final_statuses[p] \in {SENT, INVALID} => final_statuses'[p] = final_statuses[p]
          /\ final_statuses' # final_statuses =>
                \E l \in Lanes :
                    /\ lane[l].cur # 0
                    /\ hist[lane[l].cur].lane = l
                    /\ lane'[l].cur = 0
                    /\ \A p \in DOMAIN final_statuses :
                          p # phone(lane[l].cur) => final_statuses'[p] = final_statuses[p]]_vars

\* C38: every value of the ledger, and of the copy of it a flush is given,
\* is INVALID, SENT or RETRY; PENDING is never written to the ledger, and a
\* flush never sets the status of a row to PENDING (a row that is PENDING
\* after the save was loaded PENDING and is no key of the map).
C38_NoPendingWritten ==
    /\ [](\A p \in DOMAIN final_statuses : final_statuses[p] \in {INVALID, SENT, RETRY})
    /\ [](\A f \in Phases : \A p \in DOMAIN fl[f].map : fl[f].map[p] \in {INVALID, SENT, RETRY})
    /\ [][\A f \in Phases :
            (fl[f].pc = "save" /\ fl'[f].pc = "release") =>
                \A r \in Rows :
                    store'[r] = PENDING => (fl[f].wb[r] = PENDING /\ RowKey(r) \notin DOMAIN fl[f].map)]_vars

\* A flush has written a ledger that holds an INVALID and a SENT outcome on
\* rows that were PENDING, and no row is PENDING any more.
C38_Witness ==
    /\ fl["Initial"].pc = "release"
    /\ extWrites = 0
    /\ \E r \in Rows, u \in Rows :
         /\ contacts_df_full[r] = PENDING /\ store[r] = INVALID
         /\ contacts_df_full[u] = PENDING /\ store[u] = SENT
    /\ \A r \in Rows : store[r] # PENDING

\* The runner is in a phase that has contacts, past its start.
InPhase == batch # <<>> /\ rpc \in {"assign", "start", "join", "save", "savejoin"}

\* C39: the counter of the phase is 0 when a phase with contacts has started
\* (the runner leaves the start of _execute_processing_phase), it grows by
\* exactly one when a lane ends the processing of a contact it took and does
\* not change otherwise within the phase, it never exceeds the number of
\* contacts of the phase, and it equals the number of queued contacts when
\* the lanes have ended with empty queues and no stop.
C39_Counter ==
    /\ [][(rpc = "exec" /\ rpc' # "exec" /\ batch # <<>>) => total_processed_count' = 0]_vars
    /\ [][InPhase =>
            IF \E l \in Lanes : lane[l].cur # 0 /\ lane'[l].cur = 0
            THEN total_processed_count' = total_processed_count + 1
            ELSE total_processed_count' = total_processed_count]_vars
    /\ [](InPhase => total_processed_count <= Len(batch))
    /\ []((LanesEnded /\ ~stop_event /\ \A l \in Lanes : q[l] = <<>>) =>
            total_processed_count = Len(QueueOf(1, batch, driver)) + Len(QueueOf(2, batch, driver)))

====
